---- MODULE Spec2Model ----
(***************************************************************************)
(* Verification model of the C-- front end: the SLR(1) parser with its     *)
(* AST-building semantic actions (SLRParser) and the tree-walking IR       *)
(* generator (IRGenerator).                                                *)
(***************************************************************************)
EXTENDS Integers, Sequences, FiniteSets, TLC

Range(s) == {s[i] : i \in DOMAIN s}

RECURSIVE FoldRange(_, _, _, _)
\* acc after a loop "for (k = lo; k <= hi; k++) acc = Op(acc, k)", evaluated
\* by halving the range
FoldRange(Op(_, _), acc, lo, hi) ==
    IF lo > hi \/ acc # acc THEN acc
    ELSE IF lo = hi THEN Op(acc, lo)
    ELSE LET mid == (lo + hi) \div 2
             left == FoldRange(Op, acc, lo, mid)
         IN  IF left = left THEN FoldRange(Op, left, mid + 1, hi) ELSE left

\* The null pointer (an empty shared_ptr / nullptr).
Null == [kind |-> "null"]

(***************************************************************************)
(* Grammar (SLRParser::initGrammar)                                        *)
(***************************************************************************)
grammar == <<
    [id |-> 1, lhs |-> "S'", rhs |-> <<"Program">>],
    [id |-> 2, lhs |-> "Program", rhs |-> <<"compUnit">>],
    [id |-> 3, lhs |-> "compUnit", rhs |-> <<"compUnit", "element">>],
    [id |-> 4, lhs |-> "compUnit", rhs |-> <<"element">>],
    [id |-> 5, lhs |-> "element", rhs |-> <<"decl">>],
    [id |-> 6, lhs |-> "element", rhs |-> <<"funcDef">>],
    [id |-> 7, lhs |-> "decl", rhs |-> <<"constDecl">>],
    [id |-> 8, lhs |-> "decl", rhs |-> <<"varDecl">>],
    [id |-> 9, lhs |-> "constDecl", rhs |-> <<"const", "bType", "constDefList", ";">>],
    [id |-> 10, lhs |-> "constDefList", rhs |-> <<"constDefList", ",", "constDef">>],
    [id |-> 11, lhs |-> "constDefList", rhs |-> <<"constDef">>],
    [id |-> 12, lhs |-> "bType", rhs |-> <<"int">>],
    [id |-> 13, lhs |-> "bType", rhs |-> <<"float">>],
    [id |-> 14, lhs |-> "constDef", rhs |-> <<"Ident", "=", "constInitVal">>],
    [id |-> 15, lhs |-> "constInitVal", rhs |-> <<"constExp">>],
    [id |-> 16, lhs |-> "varDecl", rhs |-> <<"bType", "varDefList", ";">>],
    [id |-> 17, lhs |-> "varDefList", rhs |-> <<"varDefList", ",", "varDef">>],
    [id |-> 18, lhs |-> "varDefList", rhs |-> <<"varDef">>],
    [id |-> 19, lhs |-> "varDef", rhs |-> <<"Ident">>],
    [id |-> 20, lhs |-> "varDef", rhs |-> <<"Ident", "=", "initVal">>],
    [id |-> 21, lhs |-> "initVal", rhs |-> <<"exp">>],
    [id |-> 22, lhs |-> "funcDef", rhs |-> <<"funcType", "Ident", "(", ")", "block">>],
    [id |-> 23, lhs |-> "funcDef", rhs |-> <<"bType", "Ident", "(", ")", "block">>],
    [id |-> 24, lhs |-> "funcDef", rhs |-> <<"funcType", "Ident", "(", "funcFParams", ")", "block">>],
    [id |-> 25, lhs |-> "funcDef", rhs |-> <<"bType", "Ident", "(", "funcFParams", ")", "block">>],
    [id |-> 26, lhs |-> "funcType", rhs |-> <<"void">>],
    [id |-> 27, lhs |-> "funcFParams", rhs |-> <<"funcFParams", ",", "funcFParam">>],
    [id |-> 28, lhs |-> "funcFParams", rhs |-> <<"funcFParam">>],
    [id |-> 29, lhs |-> "funcFParam", rhs |-> <<"bType", "Ident">>],
    [id |-> 30, lhs |-> "block", rhs |-> <<"{", "blockItemList", "}">>],
    [id |-> 31, lhs |-> "block", rhs |-> <<"{", "}">>],
    [id |-> 32, lhs |-> "blockItemList", rhs |-> <<"blockItemList", "blockItem">>],
    [id |-> 33, lhs |-> "blockItemList", rhs |-> <<"blockItem">>],
    [id |-> 34, lhs |-> "blockItem", rhs |-> <<"decl">>],
    [id |-> 35, lhs |-> "blockItem", rhs |-> <<"stmt">>],
    [id |-> 36, lhs |-> "stmt", rhs |-> <<"lVal", "=", "exp", ";">>],
    [id |-> 37, lhs |-> "stmt", rhs |-> <<"exp", ";">>],
    [id |-> 38, lhs |-> "stmt", rhs |-> <<";">>],
    [id |-> 39, lhs |-> "stmt", rhs |-> <<"block">>],
    [id |-> 40, lhs |-> "stmt", rhs |-> <<"if", "(", "cond", ")", "stmt", "ElsePart">>],
    [id |-> 41, lhs |-> "stmt", rhs |-> <<"return", "exp", ";">>],
    [id |-> 42, lhs |-> "stmt", rhs |-> <<"return", ";">>],
    [id |-> 43, lhs |-> "ElsePart", rhs |-> <<"else", "stmt">>],
    [id |-> 44, lhs |-> "ElsePart", rhs |-> <<"epsilon">>],
    [id |-> 45, lhs |-> "lVal", rhs |-> <<"Ident">>],
    [id |-> 46, lhs |-> "exp", rhs |-> <<"lOrExp">>],
    [id |-> 47, lhs |-> "lOrExp", rhs |-> <<"lAndExp">>],
    [id |-> 48, lhs |-> "lOrExp", rhs |-> <<"lOrExp", "||", "lAndExp">>],
    [id |-> 49, lhs |-> "lAndExp", rhs |-> <<"eqExp">>],
    [id |-> 50, lhs |-> "lAndExp", rhs |-> <<"lAndExp", "&&", "eqExp">>],
    [id |-> 51, lhs |-> "eqExp", rhs |-> <<"relExp">>],
    [id |-> 52, lhs |-> "eqExp", rhs |-> <<"eqExp", "==", "relExp">>],
    [id |-> 53, lhs |-> "eqExp", rhs |-> <<"eqExp", "!=", "relExp">>],
    [id |-> 54, lhs |-> "relExp", rhs |-> <<"addExp">>],
    [id |-> 55, lhs |-> "relExp", rhs |-> <<"relExp", "<", "addExp">>],
    [id |-> 56, lhs |-> "relExp", rhs |-> <<"relExp", ">", "addExp">>],
    [id |-> 57, lhs |-> "relExp", rhs |-> <<"relExp", "<=", "addExp">>],
    [id |-> 58, lhs |-> "relExp", rhs |-> <<"relExp", ">=", "addExp">>],
    [id |-> 59, lhs |-> "addExp", rhs |-> <<"mulExp">>],
    [id |-> 60, lhs |-> "addExp", rhs |-> <<"addExp", "+", "mulExp">>],
    [id |-> 61, lhs |-> "addExp", rhs |-> <<"addExp", "-", "mulExp">>],
    [id |-> 62, lhs |-> "mulExp", rhs |-> <<"unaryExp">>],
    [id |-> 63, lhs |-> "mulExp", rhs |-> <<"mulExp", "*", "unaryExp">>],
    [id |-> 64, lhs |-> "mulExp", rhs |-> <<"mulExp", "/", "unaryExp">>],
    [id |-> 65, lhs |-> "mulExp", rhs |-> <<"mulExp", "%", "unaryExp">>],
    [id |-> 66, lhs |-> "unaryExp", rhs |-> <<"primaryExp">>],
    [id |-> 67, lhs |-> "unaryExp", rhs |-> <<"unaryOp", "unaryExp">>],
    [id |-> 68, lhs |-> "unaryExp", rhs |-> <<"Ident", "(", ")">>],
    [id |-> 69, lhs |-> "unaryExp", rhs |-> <<"Ident", "(", "funcRParams", ")">>],
    [id |-> 70, lhs |-> "primaryExp", rhs |-> <<"(", "exp", ")">>],
    [id |-> 71, lhs |-> "primaryExp", rhs |-> <<"lVal">>],
    [id |-> 72, lhs |-> "primaryExp", rhs |-> <<"number">>],
    [id |-> 73, lhs |-> "number", rhs |-> <<"IntConst">>],
    [id |-> 74, lhs |-> "number", rhs |-> <<"floatConst">>],
    [id |-> 75, lhs |-> "unaryOp", rhs |-> <<"+">>],
    [id |-> 76, lhs |-> "unaryOp", rhs |-> <<"-">>],
    [id |-> 77, lhs |-> "unaryOp", rhs |-> <<"!">>],
    [id |-> 78, lhs |-> "funcRParams", rhs |-> <<"exp", ",", "funcRParams">>],
    [id |-> 79, lhs |-> "funcRParams", rhs |-> <<"exp">>],
    [id |-> 80, lhs |-> "constExp", rhs |-> <<"addExp">>],
    [id |-> 81, lhs |-> "cond", rhs |-> <<"lOrExp">>]
>>

nonTerminalsOf(G) == {G[i].lhs : i \in DOMAIN G}

terminalsOf(G) ==
    ((UNION {Range(G[i].rhs) : i \in DOMAIN G} \ {"epsilon"}) \ nonTerminalsOf(G)) \cup {"$"}

nonTerminals == nonTerminalsOf(grammar)

terminals == terminalsOf(grammar)

\* every string used as a key of the first / follow maps
symbolsOf(G) == nonTerminalsOf(G) \cup terminalsOf(G) \cup {"epsilon"}

\* std::string operator< on the grammar symbols (byte-wise order): the
\* iteration order of every std::set<std::string>.
symbolOrder == <<
    "!", "!=", "$", "%", "&&", "(", ")", "*", "+", ",", "-", "/", ";", "<",
    "<=", "=", "==", ">", ">=", "ElsePart", "Ident", "IntConst", "Program",
    "S'", "UNKNOWN", "addExp", "bType", "block", "blockItem", "blockItemList",
    "compUnit", "cond", "const", "constDecl", "constDef", "constDefList",
    "constExp", "constInitVal", "decl", "element", "else", "epsilon", "eqExp",
    "exp", "float", "floatConst", "funcDef", "funcFParam", "funcFParams",
    "funcRParams", "funcType", "if", "initVal", "int", "lAndExp", "lOrExp",
    "lVal", "mulExp", "number", "primaryExp", "relExp", "return", "stmt",
    "unaryExp", "unaryOp", "varDecl", "varDef", "varDefList", "void", "{",
    "||", "}" >>

\* the elements of a std::set<std::string> in iteration order
SortedSymbols(S) == SelectSeq(symbolOrder, LAMBDA x : x \in S)

(***************************************************************************)
(* FIRST and FOLLOW (SLRParser::computeFirst, SLRParser::computeFollow)    *)
(***************************************************************************)
RECURSIVE FirstScan(_, _, _, _)
\* the loop over p.rhs of one production, updating first[p.lhs] in place
FirstScan(f, lhs, rhs, i) ==
    LET fy == f[rhs[i]]
        f1 == [f EXCEPT ![lhs] = @ \cup (fy \ {"epsilon"})]
    IN  IF "epsilon" \notin fy THEN f1
        ELSE IF i = Len(rhs) THEN [f1 EXCEPT ![lhs] = @ \cup {"epsilon"}]
        ELSE FirstScan(f1, lhs, rhs, i + 1)

\* one pass of the while loop: every production of G in order
FirstPass(G, f) ==
    LET Body(acc, k) ==
            IF G[k].rhs[1] = "epsilon"
            THEN [acc EXCEPT ![G[k].lhs] = @ \cup {"epsilon"}]
            ELSE FirstScan(acc, G[k].lhs, G[k].rhs, 1)
    IN  FoldRange(Body, f, 1, Len(G))

RECURSIVE FirstLoop(_, _)
FirstLoop(G, f) ==
    LET f1 == FirstPass(G, f)
    IN  IF f1 = f THEN f ELSE FirstLoop(G, f1)

computeFirst(G) ==
    FirstLoop(G, [x \in symbolsOf(G) |-> IF x \in terminalsOf(G) THEN {x} ELSE {}])

RECURSIVE FollowScan(_, _, _, _, _)
\* the loop over the positions i of p.rhs, updating follow[B] in place
FollowScan(G, fst, fo, p, i) ==
    IF i > Len(p.rhs) THEN fo
    ELSE LET B == p.rhs[i]
             fo1 == IF B \notin nonTerminalsOf(G) THEN fo
                    ELSE IF i + 1 <= Len(p.rhs)
                    THEN LET beta == p.rhs[i + 1]
                             fo2 == [fo EXCEPT ![B] = @ \cup (fst[beta] \ {"epsilon"})]
                         IN  IF "epsilon" \in fst[beta]
                             THEN [fo2 EXCEPT ![B] = @ \cup fo2[p.lhs]]
                             ELSE fo2
                    ELSE [fo EXCEPT ![B] = @ \cup fo[p.lhs]]
         IN  FollowScan(G, fst, fo1, p, i + 1)

FollowPass(G, fst, fo) ==
    LET Body(acc, k) == FollowScan(G, fst, acc, G[k], 1)
    IN  FoldRange(Body, fo, 1, Len(G))

RECURSIVE FollowLoop(_, _, _)
FollowLoop(G, fst, fo) ==
    LET fo1 == FollowPass(G, fst, fo)
    IN  IF fo1 = fo THEN fo ELSE FollowLoop(G, fst, fo1)

computeFollow(G, fst) ==
    FollowLoop(G, fst, [x \in symbolsOf(G) |-> IF x = "Program" THEN {"$"} ELSE {}])

first == computeFirst(grammar)

follow == computeFollow(grammar, first)

(***************************************************************************)
(* Canonical collection (closure, gotoState, buildCollection)              *)
(***************************************************************************)
\* An Item is <<prodId, dotPos>>.
RECURSIVE closure(_, _)
closure(G, I) ==
    LET new == UNION { { <<G[k].id, IF G[k].rhs[1] = "epsilon" THEN 1 ELSE 0>> :
                          k \in {j \in DOMAIN G : G[j].lhs = G[it[1]].rhs[it[2] + 1]} } :
                       it \in {x \in I : x[2] < Len(G[x[1]].rhs)} }
        temp == I \cup new
    IN  IF temp = I THEN I ELSE closure(G, temp)

gotoState(G, I, X) ==
    closure(G, { <<it[1], it[2] + 1>> :
                 it \in {x \in I : x[2] < Len(G[x[1]].rhs) /\ G[x[1]].rhs[x[2] + 1] = X} })

\* index (0-based) of the first state equal to I, or -1
FindState(C, I) ==
    IF \E k \in DOMAIN C : C[k] = I
    THEN (CHOOSE k \in DOMAIN C : C[k] = I /\ \A j \in 1..(k - 1) : C[j] # I) - 1
    ELSE -1

RECURSIVE CollectSymbols(_, _, _, _, _)
\* the loop over nextSymbols of state i (0-based), symbols xs[n..]
CollectSymbols(G, st, i, xs, n) ==
    IF n > Len(xs) THEN st
    ELSE LET X == xs[n]
             nextI == gotoState(G, st.C[i + 1], X)
             found == FindState(st.C, nextI)
             C1 == IF found = -1 THEN Append(st.C, nextI) ELSE st.C
             target == IF found = -1 THEN Len(C1) - 1 ELSE found
             g1 == IF X \in nonTerminalsOf(G)
                   THEN [st.gotoTable EXCEPT ![i] = (X :> target) @@ @]
                   ELSE st.gotoTable
             st1 == [C |-> C1,
                     gotoTable |-> IF found = -1 THEN g1 @@ ((Len(C1) - 1) :> <<>>) ELSE g1,
                     changed |-> st.changed \/ found = -1]
         IN  IF nextI = {} THEN CollectSymbols(G, st, i, xs, n + 1)
             ELSE CollectSymbols(G, st1, i, xs, n + 1)

\* the body of the loop over i for one state i (0-based)
CollectState(G, st, i) ==
    LET I == st.C[i + 1]
        nextSymbols == { G[it[1]].rhs[it[2] + 1] :
                         it \in {x \in I : x[2] < Len(G[x[1]].rhs)} } \ {"epsilon"}
    IN  IF i >= Len(st.C) THEN st
        ELSE CollectSymbols(G, st, i, SortedSymbols(nextSymbols), 1)

RECURSIVE CollectStates(_, _, _)
\* the loop over i from state i on; canonicalCollection.size() is re-read
\* every iteration, so states appended during the loop are visited too
CollectStates(G, st, i) ==
    IF i >= Len(st.C) THEN st
    ELSE LET Body(acc, k) == CollectState(G, acc, k)
             n == Len(st.C)
         IN  CollectStates(G, FoldRange(Body, st, i, n - 1), n)

RECURSIVE CollectLoop(_, _)
CollectLoop(G, st) ==
    LET st1 == CollectStates(G, [st EXCEPT !.changed = FALSE], 0)
    IN  IF st1.changed THEN CollectLoop(G, st1) ELSE st1

buildCollection(G) ==
    CollectLoop(G, [C |-> << closure(G, {<<1, 0>>}) >>,
                    gotoTable |-> (0 :> <<>>),
                    changed |-> TRUE])

collection == buildCollection(grammar)

\* canonicalCollection[s + 1] is the item set of state s
canonicalCollection == collection.C

(***************************************************************************)
(* ACTION table (SLRParser::buildTable)                                    *)
(***************************************************************************)
\* the items of a std::set<Item> in iteration order (operator<)
SortedItems(I) ==
    LET Before(a, b) == a[1] < b[1] \/ (a[1] = b[1] /\ a[2] < b[2])
    IN  [n \in 1..Cardinality(I) |->
            CHOOSE it \in I : Cardinality({o \in I : Before(o, it)}) = n - 1]

\* FillReduce without the test for a Shift entry
FillReduceOverShift(row, fs, n, prodId) ==
    [f \in {fs[k] : k \in n..Len(fs)} |-> [type |-> "REDUCE", target |-> prodId]] @@ row

RECURSIVE FillReduce(_, _, _, _)
\* the loop over follow[lhs] for one completed item
FillReduce(row, fs, n, prodId) ==
    IF n > Len(fs) THEN row
    ELSE LET f == fs[n]
         IN  IF f \in DOMAIN row /\ row[f].type = "SHIFT"
             THEN FillReduce(row, fs, n + 1, prodId)
             ELSE FillReduce((f :> [type |-> "REDUCE", target |-> prodId]) @@ row,
                             fs, n + 1, prodId)

FillItem(G, C, fo, i, row, item) ==
    IF item[2] < Len(G[item[1]].rhs)
    THEN LET a == G[item[1]].rhs[item[2] + 1]
             k == FindState(C, gotoState(G, C[i + 1], a))
         IN  IF a \in terminalsOf(G) /\ k # -1
             THEN (a :> [type |-> "SHIFT", target |-> k]) @@ row
             ELSE row
    ELSE IF G[item[1]].lhs = "S'"
         THEN ("$" :> [type |-> "ACC", target |-> 0]) @@ row
         ELSE FillReduce(row, SortedSymbols(fo[G[item[1]].lhs]), 1, item[1])

RECURSIVE FillRow(_, _, _, _, _, _, _)
FillRow(G, C, fo, i, row, items, n) ==
    IF n > Len(items) THEN row
    ELSE FillRow(G, C, fo, i, FillItem(G, C, fo, i, row, items[n]), items, n + 1)

buildTable(G, C, fo) ==
    [i \in 0..(Len(C) - 1) |-> FillRow(G, C, fo, i, <<>>, SortedItems(C[i + 1]), 1)]

(***************************************************************************)
(* Tokens (struct Token, SLRParser::getTokenSymbol)                        *)
(***************************************************************************)
\* A Token is [type, value]; line and column are only printed.
Tok(t, v) == [type |-> t, value |-> v]

getTokenSymbol(t) ==
    CASE t.type = "IDN" -> "Ident"
      [] t.type = "INT" -> "IntConst"
      [] t.type = "FLOAT" -> "floatConst"
      [] t.type = "KW_INT" -> "int"
      [] t.type = "KW_FLOAT" -> "float"
      [] t.type = "KW_VOID" -> "void"
      [] t.type = "KW_CONST" -> "const"
      [] t.type = "KW_RETURN" -> "return"
      [] t.type = "KW_IF" -> "if"
      [] t.type = "KW_ELSE" -> "else"
      [] t.type = "OP_PLUS" -> "+"
      [] t.type = "OP_MINUS" -> "-"
      [] t.type = "OP_MUL" -> "*"
      [] t.type = "OP_DIV" -> "/"
      [] t.type = "OP_MOD" -> "%"
      [] t.type = "OP_ASSIGN" -> "="
      [] t.type = "OP_EQ" -> "=="
      [] t.type = "OP_NE" -> "!="
      [] t.type = "OP_LT" -> "<"
      [] t.type = "OP_GT" -> ">"
      [] t.type = "OP_LE" -> "<="
      [] t.type = "OP_GE" -> ">="
      [] t.type = "OP_AND" -> "&&"
      [] t.type = "OP_OR" -> "||"
      [] t.type = "OP_NOT" -> "!"
      [] t.type = "SE_LPAREN" -> "("
      [] t.type = "SE_RPAREN" -> ")"
      [] t.type = "SE_LBRACE" -> "{"
      [] t.type = "SE_RBRACE" -> "}"
      [] t.type = "SE_SEMI" -> ";"
      [] t.type = "SE_COMMA" -> ","
      [] t.type = "END_OF_FILE" -> "$"
      [] OTHER -> "UNKNOWN"

(***************************************************************************)
(* Numeric literal conversion (std::stoi, std::stof in SLRParser::reduce)  *)
(***************************************************************************)
INT_MAX == 2147483647

\* the characters of the literal texts that occur in the inputs
CharsOf(text) ==
    CASE text = "0" -> <<"0">>
      [] text = "1" -> <<"1">>
      [] text = "5" -> <<"5">>
      [] text = "7" -> <<"7">>
      [] text = "10" -> <<"1", "0">>
      [] text = "2147483648" -> <<"2", "1", "4", "7", "4", "8", "3", "6", "4", "8">>
      [] text = "1.5" -> <<"1", ".", "5">>
      [] text = "0.0" -> <<"0", ".", "0">>
      [] OTHER -> <<>>

DigitVal(c) ==
    CASE c = "0" -> 0 [] c = "1" -> 1 [] c = "2" -> 2 [] c = "3" -> 3 [] c = "4" -> 4
      [] c = "5" -> 5 [] c = "6" -> 6 [] c = "7" -> 7 [] c = "8" -> 8 [] c = "9" -> 9
      [] OTHER -> -1

RECURSIVE DigitsValue(_, _, _)
\* value of the longest digit prefix of cs[i..], accumulated in acc (strtol);
\* -1 as soon as the value exceeds INT_MAX
DigitsValue(cs, i, acc) ==
    IF i > Len(cs) \/ DigitVal(cs[i]) < 0 THEN acc
    ELSE IF acc > (INT_MAX - DigitVal(cs[i])) \div 10 THEN -1
    ELSE DigitsValue(cs, i + 1, acc * 10 + DigitVal(cs[i]))

\* std::stoi: [ok, val]; ok = FALSE stands for the exception it throws
\* (std::invalid_argument without a digit, std::out_of_range above INT_MAX)
stoi(text) ==
    LET cs == CharsOf(text)
        v == DigitsValue(cs, 1, 0)
    IN  IF Len(cs) = 0 \/ DigitVal(cs[1]) < 0 THEN [ok |-> FALSE, val |-> 0]
        ELSE IF v < 0 THEN [ok |-> FALSE, val |-> 0]
        ELSE [ok |-> TRUE, val |-> v]

\* A float is the decimal fraction num / den.
FloatOf(n) == [num |-> n, den |-> 1]

RECURSIVE Pow10(_)
Pow10(n) == IF n = 0 THEN 1 ELSE 10 * Pow10(n - 1)

\* std::stof on a literal "digits.digits"
stof(text) ==
    LET cs == CharsOf(text)
        dot == IF \E i \in DOMAIN cs : cs[i] = "."
               THEN CHOOSE i \in DOMAIN cs : cs[i] = "." ELSE Len(cs) + 1
        whole == DigitsValue(cs, 1, 0)
        frac == DigitsValue(cs, dot + 1, 0)
        nfrac == IF dot > Len(cs) THEN 0 ELSE Len(cs) - dot
    IN  IF Len(cs) = 0 THEN [ok |-> FALSE, val |-> FloatOf(0)]
        ELSE [ok |-> TRUE,
              val |-> [num |-> whole * Pow10(nfrac) + frac, den |-> Pow10(nfrac)]]

(***************************************************************************)
(* AST nodes (AST.h): the value of each constructor                        *)
(***************************************************************************)
CompUnitNode == [type |-> "CompUnit", decls |-> <<>>, funcDefs |-> <<>>]

ConstDeclNode == [type |-> "ConstDecl", isConst |-> TRUE, bType |-> "INT", constDefs |-> <<>>]

VarDeclNode == [type |-> "VarDecl", isConst |-> FALSE, bType |-> "INT", varDefs |-> <<>>]

ConstDefNode == [type |-> "ConstDef", ident |-> "", initVal |-> Null]

VarDefNode == [type |-> "VarDef", ident |-> "", initVal |-> Null]

FuncDefNode ==
    [type |-> "FuncDef", returnType |-> "INT", ident |-> "", params |-> <<>>, block |-> Null]

FuncFParamNode == [type |-> "FuncFParam", bType |-> "INT", ident |-> ""]

BlockNode == [type |-> "Block", items |-> <<>>]

BlockItemNode == [type |-> "BlockItem", decl |-> Null, stmt |-> Null]

StmtNode ==
    [type |-> "Stmt", stmtType |-> "EXP", lVal |-> Null, exp |-> Null, block |-> Null,
     cond |-> Null, thenStmt |-> Null, elseStmt |-> Null]

CondNode == [type |-> "Cond", lOrExp |-> Null]

LValNode == [type |-> "LVal", ident |-> ""]

NumberNode == [type |-> "Number", isFloat |-> FALSE, intVal |-> 0, floatVal |-> FloatOf(0)]

PrimaryExpNode ==
    [type |-> "PrimaryExp", primaryType |-> "NUMBER", exp |-> Null, lVal |-> Null,
     number |-> Null]

UnaryExpNode ==
    [type |-> "UnaryExp", unaryType |-> "PRIMARY", primaryExp |-> Null, funcName |-> "",
     args |-> <<>>, unaryOp |-> "PLUS", unaryExp |-> Null]

MulExpNode == [type |-> "MulExp", left |-> Null, op |-> "MUL", right |-> Null]

AddExpNode == [type |-> "AddExp", left |-> Null, op |-> "ADD", right |-> Null]

RelExpNode == [type |-> "RelExp", left |-> Null, op |-> "LT", right |-> Null]

EqExpNode == [type |-> "EqExp", left |-> Null, op |-> "EQ", right |-> Null]

LAndExpNode == [type |-> "LAndExp", left |-> Null, right |-> Null]

LOrExpNode == [type |-> "LOrExp", left |-> Null, right |-> Null]

(***************************************************************************)
(* Semantic values and semantic actions (SemanticValue, SLRParser::reduce) *)
(***************************************************************************)
SemanticValue ==
    [terminal |-> "", compUnit |-> Null, decl |-> Null, constDecl |-> Null,
     varDecl |-> Null, constDef |-> Null, varDef |-> Null, funcDef |-> Null,
     funcFParam |-> Null, block |-> Null, blockItem |-> Null, stmt |-> Null,
     lVal |-> Null, exp |-> Null, cond |-> Null, primaryExp |-> Null,
     unaryExp |-> Null, mulExp |-> Null, addExp |-> Null, relExp |-> Null,
     eqExp |-> Null, lAndExp |-> Null, lOrExp |-> Null, number |-> Null,
     bType |-> "INT", unaryOp |-> "PLUS", constDefList |-> <<>>, varDefList |-> <<>>,
     funcFParams |-> <<>>, blockItemList |-> <<>>, funcRParams |-> <<>>]

\* AddElement with the element put in front of its list
AddElementFront(cu, el) ==
    IF el.decl # Null THEN [cu EXCEPT !.decls = <<el.decl>> \o @]
    ELSE IF el.funcDef # Null THEN [cu EXCEPT !.funcDefs = <<el.funcDef>> \o @]
    ELSE cu

\* compUnit -> compUnit element / compUnit -> element: the element is
\* appended to decls when it carries a decl, else to funcDefs when it
\* carries a funcDef
AddElement(cu, el) ==
    IF el.decl # Null THEN [cu EXCEPT !.decls = Append(@, el.decl)]
    ELSE IF el.funcDef # Null THEN [cu EXCEPT !.funcDefs = Append(@, el.funcDef)]
    ELSE cu

\* funcDef productions 22..25
MakeFuncDef(retType, ident, params, block) ==
    [FuncDefNode EXCEPT !.returnType = retType, !.ident = ident, !.params = params,
                        !.block = block]

\* the "extend" rule of a binary level: left op right
\* MakeBinary with the operator left at the constructor's default
MakeBinaryDefaultOp(node, left, op, right) ==
    [node EXCEPT !.left = left, !.right = right]

\* MakeBinary with the left operand never linked
MakeBinaryNoLeft(node, left, op, right) ==
    [node EXCEPT !.op = op, !.right = right]

MakeBinary(node, left, op, right) ==
    [node EXCEPT !.left = left, !.op = op, !.right = right]

\* exp -> lOrExp: the lOrExp is wrapped as AddExp(MulExp(UnaryExp(PrimaryExp(paren))))
WrapLOrExp(lOrExp) ==
    [AddExpNode EXCEPT !.right =
        [MulExpNode EXCEPT !.right =
            [UnaryExpNode EXCEPT !.unaryType = "PRIMARY", !.primaryExp =
                [PrimaryExpNode EXCEPT !.primaryType = "PAREN_EXP", !.exp = lOrExp]]]]

\* TRUE when the semantic action throws (std::stoi / std::stof)
reduceThrows(prodId, vals) ==
    \/ prodId = 73 /\ ~stoi(vals[1].terminal).ok
    \/ prodId = 74 /\ ~stof(vals[1].terminal).ok

\* vals[k] is the C++ vals[k - 1]
reduce(prodId, vals) ==
    LET result == SemanticValue
    IN  CASE prodId \in {1, 2, 5, 6} -> vals[1]
          [] prodId = 3 -> [vals[1] EXCEPT !.compUnit = AddElement(@, vals[2])]
          [] prodId = 4 -> [result EXCEPT !.compUnit = AddElement(CompUnitNode, vals[1])]
          [] prodId = 7 -> [result EXCEPT !.decl = vals[1].constDecl]
          [] prodId = 8 -> [result EXCEPT !.decl = vals[1].varDecl]
          [] prodId = 9 ->
                [result EXCEPT !.constDecl =
                    [ConstDeclNode EXCEPT !.bType = vals[2].bType,
                                          !.constDefs = vals[3].constDefList]]
          [] prodId = 10 ->
                [result EXCEPT !.constDefList = Append(vals[1].constDefList, vals[3].constDef)]
          [] prodId = 11 -> [result EXCEPT !.constDefList = <<vals[1].constDef>>]
          [] prodId = 12 -> [result EXCEPT !.bType = "INT"]
          [] prodId = 13 -> [result EXCEPT !.bType = "FLOAT"]
          [] prodId = 14 ->
                [result EXCEPT !.constDef =
                    [ConstDefNode EXCEPT !.ident = vals[1].terminal, !.initVal = vals[3].exp]]
          [] prodId = 15 -> [result EXCEPT !.exp = vals[1].exp]
          [] prodId = 16 ->
                [result EXCEPT !.varDecl =
                    [VarDeclNode EXCEPT !.bType = vals[1].bType,
                                        !.varDefs = vals[2].varDefList]]
          [] prodId = 17 ->
                [result EXCEPT !.varDefList = Append(vals[1].varDefList, vals[3].varDef)]
          [] prodId = 18 -> [result EXCEPT !.varDefList = <<vals[1].varDef>>]
          [] prodId = 19 ->
                [result EXCEPT !.varDef = [VarDefNode EXCEPT !.ident = vals[1].terminal]]
          [] prodId = 20 ->
                [result EXCEPT !.varDef =
                    [VarDefNode EXCEPT !.ident = vals[1].terminal, !.initVal = vals[3].exp]]
          [] prodId = 21 -> [result EXCEPT !.exp = vals[1].exp]
          [] prodId = 22 ->
                [result EXCEPT !.funcDef =
                    MakeFuncDef("VOID", vals[2].terminal, <<>>, vals[5].block)]
          [] prodId = 23 ->
                [result EXCEPT !.funcDef =
                    MakeFuncDef(vals[1].bType, vals[2].terminal, <<>>, vals[5].block)]
          [] prodId = 24 ->
                [result EXCEPT !.funcDef =
                    MakeFuncDef("VOID", vals[2].terminal, vals[4].funcFParams, vals[6].block)]
          [] prodId = 25 ->
                [result EXCEPT !.funcDef =
                    MakeFuncDef(vals[1].bType, vals[2].terminal, vals[4].funcFParams,
                                vals[6].block)]
          [] prodId = 26 -> [result EXCEPT !.bType = "VOID"]
          [] prodId = 27 ->
                [result EXCEPT !.funcFParams = Append(vals[1].funcFParams, vals[3].funcFParam)]
          [] prodId = 28 -> [result EXCEPT !.funcFParams = <<vals[1].funcFParam>>]
          [] prodId = 29 ->
                [result EXCEPT !.funcFParam =
                    [FuncFParamNode EXCEPT !.bType = vals[1].bType, !.ident = vals[2].terminal]]
          [] prodId = 30 ->
                [result EXCEPT !.block = [BlockNode EXCEPT !.items = vals[2].blockItemList]]
          [] prodId = 31 -> [result EXCEPT !.block = BlockNode]
          [] prodId = 32 ->
                [result EXCEPT !.blockItemList =
                    Append(vals[1].blockItemList, vals[2].blockItem)]
          [] prodId = 33 -> [result EXCEPT !.blockItemList = <<vals[1].blockItem>>]
          [] prodId = 34 ->
                [result EXCEPT !.blockItem = [BlockItemNode EXCEPT !.decl = vals[1].decl]]
          [] prodId = 35 ->
                [result EXCEPT !.blockItem = [BlockItemNode EXCEPT !.stmt = vals[1].stmt]]
          [] prodId = 36 ->
                [result EXCEPT !.stmt =
                    [StmtNode EXCEPT !.stmtType = "ASSIGN", !.lVal = vals[1].lVal,
                                     !.exp = vals[3].exp]]
          [] prodId = 37 ->
                [result EXCEPT !.stmt =
                    [StmtNode EXCEPT !.stmtType = "EXP", !.exp = vals[1].exp]]
          [] prodId = 38 -> [result EXCEPT !.stmt = [StmtNode EXCEPT !.stmtType = "EXP"]]
          [] prodId = 39 ->
                [result EXCEPT !.stmt =
                    [StmtNode EXCEPT !.stmtType = "BLOCK", !.block = vals[1].block]]
          [] prodId = 40 ->
                [result EXCEPT !.stmt =
                    [StmtNode EXCEPT !.stmtType = "IF", !.cond = vals[3].cond,
                                     !.thenStmt = vals[5].stmt, !.elseStmt = vals[6].stmt]]
          [] prodId = 41 ->
                [result EXCEPT !.stmt =
                    [StmtNode EXCEPT !.stmtType = "RETURN", !.exp = vals[2].exp]]
          [] prodId = 42 -> [result EXCEPT !.stmt = [StmtNode EXCEPT !.stmtType = "RETURN"]]
          [] prodId = 43 -> [result EXCEPT !.stmt = vals[2].stmt]
          [] prodId = 44 -> [result EXCEPT !.stmt = Null]
          [] prodId = 45 ->
                [result EXCEPT !.lVal = [LValNode EXCEPT !.ident = vals[1].terminal]]
          [] prodId = 46 -> [result EXCEPT !.exp = WrapLOrExp(vals[1].lOrExp)]
          [] prodId = 47 ->
                [result EXCEPT !.lOrExp = [LOrExpNode EXCEPT !.right = vals[1].lAndExp]]
          [] prodId = 48 ->
                [result EXCEPT !.lOrExp =
                    [LOrExpNode EXCEPT !.left = vals[1].lOrExp, !.right = vals[3].lAndExp]]
          [] prodId = 49 ->
                [result EXCEPT !.lAndExp = [LAndExpNode EXCEPT !.right = vals[1].eqExp]]
          [] prodId = 50 ->
                [result EXCEPT !.lAndExp =
                    [LAndExpNode EXCEPT !.left = vals[1].lAndExp, !.right = vals[3].eqExp]]
          [] prodId = 51 -> [result EXCEPT !.eqExp = [EqExpNode EXCEPT !.right = vals[1].relExp]]
          [] prodId = 52 ->
                [result EXCEPT !.eqExp = MakeBinary(EqExpNode, vals[1].eqExp, "EQ", vals[3].relExp)]
          [] prodId = 53 ->
                [result EXCEPT !.eqExp = MakeBinary(EqExpNode, vals[1].eqExp, "NE", vals[3].relExp)]
          [] prodId = 54 ->
                [result EXCEPT !.relExp = [RelExpNode EXCEPT !.right = vals[1].addExp]]
          [] prodId = 55 ->
                [result EXCEPT !.relExp =
                    MakeBinary(RelExpNode, vals[1].relExp, "LT", vals[3].addExp)]
          [] prodId = 56 ->
                [result EXCEPT !.relExp =
                    MakeBinary(RelExpNode, vals[1].relExp, "GT", vals[3].addExp)]
          [] prodId = 57 ->
                [result EXCEPT !.relExp =
                    MakeBinary(RelExpNode, vals[1].relExp, "LE", vals[3].addExp)]
          [] prodId = 58 ->
                [result EXCEPT !.relExp =
                    MakeBinary(RelExpNode, vals[1].relExp, "GE", vals[3].addExp)]
          [] prodId = 59 ->
                [result EXCEPT !.addExp = [AddExpNode EXCEPT !.right = vals[1].mulExp]]
          [] prodId = 60 ->
                [result EXCEPT !.addExp =
                    MakeBinary(AddExpNode, vals[1].addExp, "ADD", vals[3].mulExp)]
          [] prodId = 61 ->
                [result EXCEPT !.addExp =
                    MakeBinary(AddExpNode, vals[1].addExp, "SUB", vals[3].mulExp)]
          [] prodId = 62 ->
                [result EXCEPT !.mulExp = [MulExpNode EXCEPT !.right = vals[1].unaryExp]]
          [] prodId = 63 ->
                [result EXCEPT !.mulExp =
                    MakeBinary(MulExpNode, vals[1].mulExp, "MUL", vals[3].unaryExp)]
          [] prodId = 64 ->
                [result EXCEPT !.mulExp =
                    MakeBinary(MulExpNode, vals[1].mulExp, "DIV", vals[3].unaryExp)]
          [] prodId = 65 ->
                [result EXCEPT !.mulExp =
                    MakeBinary(MulExpNode, vals[1].mulExp, "MOD", vals[3].unaryExp)]
          [] prodId = 66 ->
                [result EXCEPT !.unaryExp =
                    [UnaryExpNode EXCEPT !.unaryType = "PRIMARY",
                                         !.primaryExp = vals[1].primaryExp]]
          [] prodId = 67 ->
                [result EXCEPT !.unaryExp =
                    [UnaryExpNode EXCEPT !.unaryType = "UNARY_OP", !.unaryOp = vals[1].unaryOp,
                                         !.unaryExp = vals[2].unaryExp]]
          [] prodId = 68 ->
                [result EXCEPT !.unaryExp =
                    [UnaryExpNode EXCEPT !.unaryType = "FUNC_CALL",
                                         !.funcName = vals[1].terminal]]
          [] prodId = 69 ->
                [result EXCEPT !.unaryExp =
                    [UnaryExpNode EXCEPT !.unaryType = "FUNC_CALL",
                                         !.funcName = vals[1].terminal,
                                         !.args = vals[3].funcRParams]]
          [] prodId = 70 ->
                [result EXCEPT !.primaryExp =
                    [PrimaryExpNode EXCEPT !.primaryType = "PAREN_EXP", !.exp = vals[2].exp]]
          [] prodId = 71 ->
                [result EXCEPT !.primaryExp =
                    [PrimaryExpNode EXCEPT !.primaryType = "LVAL", !.lVal = vals[1].lVal]]
          [] prodId = 72 ->
                [result EXCEPT !.primaryExp =
                    [PrimaryExpNode EXCEPT !.primaryType = "NUMBER", !.number = vals[1].number]]
          [] prodId = 73 ->
                [result EXCEPT !.number =
                    [NumberNode EXCEPT !.isFloat = FALSE, !.intVal = stoi(vals[1].terminal).val]]
          [] prodId = 74 ->
                [result EXCEPT !.number =
                    [NumberNode EXCEPT !.isFloat = TRUE, !.floatVal = stof(vals[1].terminal).val]]
          [] prodId = 75 -> [result EXCEPT !.unaryOp = "PLUS"]
          [] prodId = 76 -> [result EXCEPT !.unaryOp = "MINUS"]
          [] prodId = 77 -> [result EXCEPT !.unaryOp = "NOT"]
          [] prodId = 78 ->
                [result EXCEPT !.funcRParams = <<vals[1].exp>> \o vals[3].funcRParams]
          [] prodId = 79 -> [result EXCEPT !.funcRParams = <<vals[1].exp>>]
          [] prodId = 80 -> [result EXCEPT !.exp = vals[1].addExp]
          [] prodId = 81 -> [result EXCEPT !.cond = [CondNode EXCEPT !.lOrExp = vals[1].lOrExp]]
          [] OTHER -> result

(***************************************************************************)
(* Inputs: token streams as the lexer delivers them                        *)
(***************************************************************************)
MaxElems == 2

MaxStmts == 2

MaxParses == 2

IdentNames == {"a", "b", "c", "f", "g", "h", "u", "x", "main", "getint", "putint"}

IntLiterals == {"0", "1", "5", "7", "10", "2147483648"}

FloatLiterals == {"1.5", "0.0"}

\* the token the lexer produces for one lexeme
TokenOf(w) ==
    CASE w \in IdentNames -> Tok("IDN", w)
      [] w \in IntLiterals -> Tok("INT", w)
      [] w \in FloatLiterals -> Tok("FLOAT", w)
      [] w = "int" -> Tok("KW_INT", w)
      [] w = "float" -> Tok("KW_FLOAT", w)
      [] w = "void" -> Tok("KW_VOID", w)
      [] w = "const" -> Tok("KW_CONST", w)
      [] w = "return" -> Tok("KW_RETURN", w)
      [] w = "if" -> Tok("KW_IF", w)
      [] w = "else" -> Tok("KW_ELSE", w)
      [] w = "+" -> Tok("OP_PLUS", w)
      [] w = "-" -> Tok("OP_MINUS", w)
      [] w = "*" -> Tok("OP_MUL", w)
      [] w = "/" -> Tok("OP_DIV", w)
      [] w = "%" -> Tok("OP_MOD", w)
      [] w = "=" -> Tok("OP_ASSIGN", w)
      [] w = "==" -> Tok("OP_EQ", w)
      [] w = "!=" -> Tok("OP_NE", w)
      [] w = "<" -> Tok("OP_LT", w)
      [] w = ">" -> Tok("OP_GT", w)
      [] w = "<=" -> Tok("OP_LE", w)
      [] w = ">=" -> Tok("OP_GE", w)
      [] w = "&&" -> Tok("OP_AND", w)
      [] w = "||" -> Tok("OP_OR", w)
      [] w = "!" -> Tok("OP_NOT", w)
      [] w = "(" -> Tok("SE_LPAREN", w)
      [] w = ")" -> Tok("SE_RPAREN", w)
      [] w = "{" -> Tok("SE_LBRACE", w)
      [] w = "}" -> Tok("SE_RBRACE", w)
      [] w = ";" -> Tok("SE_SEMI", w)
      [] w = "," -> Tok("SE_COMMA", w)
      [] w = "$" -> Tok("END_OF_FILE", w)
      [] OTHER -> Tok("ERROR", w)

\* the token vector of a source text given as its lexemes; the lexer ends
\* every vector with the END_OF_FILE token
Lex(ws) == [i \in 1..(Len(ws) + 1) |-> IF i <= Len(ws) THEN TokenOf(ws[i]) ELSE TokenOf("$")]

RECURSIVE Flatten(_)
Flatten(ss) == IF ss = <<>> THEN <<>> ELSE Head(ss) \o Flatten(Tail(ss))

\* all sequences over S of length 1..n
SeqsUpTo(S, n) == UNION {[1..k -> S] : k \in 1..n}

\* top-level elements: kind is what the source text declares
Elements == {
    [kind |-> "decl", name |-> "a", src |-> <<"int", "a", ";">>],
    [kind |-> "decl", name |-> "a", src |-> <<"int", "a", "=", "10", ";">>],
    [kind |-> "decl", name |-> "b", src |-> <<"float", "b", ";">>],
    [kind |-> "decl", name |-> "c", src |-> <<"const", "int", "c", "=", "7", ";">>],
    [kind |-> "func", name |-> "f",
     src |-> <<"int", "f", "(", ")", "{", "return", "1", ";", "}">>],
    [kind |-> "func", name |-> "g", src |-> <<"void", "g", "(", ")", "{", "}">>],
    [kind |-> "func", name |-> "h",
     src |-> <<"float", "h", "(", "int", "a", ")", "{", "a", "=", "a", "+", "5", ";", "}">>] }

\* a program made of top-level elements, kept with its elements
ElementPrograms ==
    { [elems |-> es, src |-> Flatten([i \in DOMAIN es |-> es[i].src])] :
        es \in SeqsUpTo(Elements, MaxElems) }

FuncHeaders == {
    <<"int", "f", "(", "int", "a", ")">>,
    <<"void", "f", "(", "int", "a", ")">>,
    <<"float", "f", "(", "int", "a", ")">> }

Statements == {
    <<"return", "1", ";">>,
    <<"a", "=", "a", "+", "1", ";">>,
    <<"int", "a", ";">>,
    <<"if", "(", "a", ")", "return", "0", ";">>,
    <<"{", "int", "a", ";", "}">> }

\* one function whose body is a sequence of at most MaxStmts statements
BodySource(h, b) == h \o <<"{">> \o Flatten(b) \o <<"}">>

BodyPrograms ==
    { [elems |-> << [kind |-> "func", name |-> "f", src |-> BodySource(h, b)] >>,
       src |-> BodySource(h, b)] :
        h \in FuncHeaders, b \in SeqsUpTo(Statements, MaxStmts) \cup {<<>>} }

ScenarioSources == {
    <<"int", "a", "=", "10", ";", "int", "main", "(", ")", "{",
      "a", "=", "a", "+", "5", ";", "return", "a", ";", "}">>,
    <<"int", "f", "(", "int", "x", ")", "{", "if", "(", "x", ">", "0", ")",
      "return", "1", ";", "else", "return", "0", ";", "}">>,
    <<"int", "f", "(", ")", "{", "return", "1", ";", "}",
      "int", "g", "(", ")", "{", "return", "0", "&&", "f", "(", ")", ";", "}">>,
    <<"int", "f", "(", ")", "{", "return", "1", ";", "}",
      "int", "g", "(", ")", "{", "return", "1", "||", "f", "(", ")", ";", "}">>,
    <<"int", "f", "(", ")", "{", "return", "1", ";", "}",
      "int", "g", "(", "int", "x", ")", "{",
      "if", "(", "x", "&&", "f", "(", ")", "||", "x", "&&", "f", "(", ")", ")",
      "x", "=", "0", ";", "}">>,
    <<"int", "main", "(", ")", "{", "putint", "(", "getint", "(", ")", ")", ";",
      "return", "0", ";", "}">>,
    <<"int", "main", "(", ")", "{", "int", "x", ";", "int", "x", ";", "return", "x", ";", "}",
      "void", "g", "(", ")", "{", "}">>,
    <<"const", "int", "c", "=", "1", ",", "c", "=", "5", ";", "int", "x", ",", "x", "=", "1", ";">>,
    <<"int", "main", "(", ")", "{", "return", "u", "+", "1", ";", "}",
      "int", "g", "(", ")", "{", "return", "0", ";", "}">>,
    <<"int", "main", "(", ")", "{", "u", "=", "1", ";", "}", "void", "g", "(", ")", "{", "}">>,
    <<"float", "b", "=", "1.5", ";", "float", "h", "(", "float", "x", ")", "{",
      "if", "(", "x", ")", "{", "return", "x", ";", "}", "}">>,
    <<"int", "x", "=", "1", ";", "int", "main", "(", ")", "{",
      "int", "x", ";", "x", "=", "5", ";",
      "{", "int", "x", ";", "x", "=", "7", ";", "}",
      "x", "=", "10", ";", "return", "x", ";", "}">>,
    <<"int", "f", "(", "int", "x", ")", "{",
      "if", "(", "x", ")", "x", "=", "1", ";", "else", "return", "0", ";",
      "if", "(", "x", ")", "return", "1", ";", "else", "return", "0", ";", "}">>,
    <<"int", "g", "(", "float", "x", ")", "{", "return", "1", "&&", "x", ";", "}">>,
    <<"int", "f", "(", "int", "a", ")", "{",
      "return", "(", "a", "<", "1", ")", "+", "1", ";", "}">>,
    <<"float", "h", "(", "float", "x", ")", "{", "return", "x", "*", "5", ";", "}">>,
    <<"int", "f", "(", "int", "a", ")", "{",
      "if", "(", "a", ")", "return", "f", "(", "a", "-", "1", ")", ";",
      "return", "0", ";", "}">>,
    <<"int", "f", "(", "int", "a", ")", "{",
      "return", "a", "-", "1", "+", "a", "-", "5", ";", "}">>,
    <<"int", "f", "(", "int", "a", ")", "{",
      "return", "a", "*", "5", "/", "a", "%", "7", ";", "}">>,
    <<"int", "f", "(", "int", "a", ")", "{",
      "return", "a", "||", "0", "||", "a", ";", "}">>,
    <<"int", "f", "(", "int", "x", ")", "{",
      "if", "(", "x", ")", "if", "(", "a", ")", "x", "=", "1", ";", "else", "x", "=", "0", ";",
      "return", "x", ";", "}">> }

ScenarioPrograms == { [elems |-> <<>>, src |-> s] : s \in ScenarioSources }

\* sources the grammar does not derive
MalformedSources == {
    <<"int", "a", "=", ";">>,
    <<"int", "a">>,
    <<"int", "a", ";", "int", "=", ";">>,
    <<"int", "f", "(", ")", "{", "return", "1", "}">>,
    <<"int", "f", "(", ")", "{", "a", "=", "@", ";", "}">>,
    <<"int", "f", "(", ")", "{", "return", "1", ";", "}", "}">>,
    <<"int", "a", "=", "2147483648", ";">>,
    <<>> }

MalformedPrograms == { [elems |-> <<>>, src |-> s] : s \in MalformedSources }

Programs == ElementPrograms \cup BodyPrograms \cup ScenarioPrograms \cup MalformedPrograms

\* the token vectors handed to SLRParser::parse
Inputs == {Lex(p.src) : p \in Programs}

(***************************************************************************)
(* State                                                                   *)
(***************************************************************************)
VARIABLES
    actionTable,   \* SLRParser::actionTable, actionTable[s][a]
    gotoTable,     \* SLRParser::gotoTable, gotoTable[s][A]
    astRoot,       \* SLRParser::astRoot
    hasError,      \* SLRParser::hasError
    tokens,        \* the argument of the running (or last) parse call
    stateStack,    \* parse: stateStack
    valueStack,    \* parse: valueStack
    ip,            \* parse: ip
    pc,            \* "ready", "parsing", "returned", "threw"
    parseResult,   \* value returned by the last parse call: "none", "true", "false"
    nCalls,        \* number of parse calls made on the parser object
    parseLog,      \* SLRParser::parseLog, the lines written so far
    builder,       \* the table construction in progress in SLRParser::SLRParser
    gen            \* the IRGenerator object and the progress of generate

parserVars == <<actionTable, gotoTable, astRoot, hasError, tokens, stateStack,
                valueStack, ip, pc, parseResult, nCalls, parseLog, builder>>

vars == <<actionTable, gotoTable, astRoot, hasError, tokens, stateStack,
          valueStack, ip, pc, parseResult, nCalls, parseLog, builder, gen>>

(***************************************************************************)
(* SLRParser::parse                                                        *)
(***************************************************************************)
\* top of the state stack and grammar symbol of the lookahead
TopState == stateStack[Len(stateStack)]

Lookahead == IF ip >= Len(tokens) THEN "$" ELSE getTokenSymbol(tokens[ip + 1])

ActionDefined == Lookahead \in DOMAIN actionTable[TopState]

CurrentAction == actionTable[TopState][Lookahead]

\* entry of parse: the locals are initialised and hasError is cleared
ParseBegin(input) ==
    /\ tokens' = input
    /\ stateStack' = <<0>>
    /\ valueStack' = <<>>
    /\ ip' = 0
    /\ hasError' = FALSE
    /\ pc' = "parsing"
    /\ parseResult' = "none"
    /\ nCalls' = nCalls + 1
    /\ UNCHANGED <<builder, parseLog, actionTable, gotoTable, astRoot, gen>>

\* ParseError with panic-mode recovery: the offending token is skipped
ParseErrorRecover ==
    /\ pc = "parsing"
    /\ ~ActionDefined
    /\ hasError' = TRUE
    /\ IF ip < Len(tokens)
       THEN ip' = ip + 1 /\ UNCHANGED <<pc, parseResult>>
       ELSE ip' = ip /\ pc' = "returned" /\ parseResult' = "false"
    /\ UNCHANGED <<builder, parseLog, actionTable, gotoTable,
                   astRoot, tokens, stateStack, valueStack,
                   nCalls, gen>>

\* ACTION[s, a] undefined: report, set hasError, return false
ParseError ==
    /\ pc = "parsing"
    /\ ~ActionDefined
    /\ hasError' = TRUE
    /\ parseResult' = "false"
    /\ pc' = "returned"
    /\ UNCHANGED <<builder, parseLog, actionTable, gotoTable,
                   astRoot, tokens, stateStack, valueStack, ip,
                   nCalls, gen>>

\* the semantic value pushed by a shift
ShiftValue == IF ip < Len(tokens)
              THEN [SemanticValue EXCEPT !.terminal = tokens[ip + 1].value]
              ELSE SemanticValue

ParseShift ==
    /\ pc = "parsing"
    /\ ActionDefined
    /\ CurrentAction.type = "SHIFT"
    /\ stateStack' = Append(stateStack, CurrentAction.target)
    /\ valueStack' = Append(valueStack, ShiftValue)
    /\ ip' = ip + 1
    /\ UNCHANGED <<builder, parseLog, actionTable, gotoTable,
                   astRoot, hasError, tokens, pc, parseResult,
                   nCalls, gen>>

\* number of stack entries a reduce by p pops
PopCount(p) == IF p.rhs[1] = "epsilon" THEN 0 ELSE Len(p.rhs)

ParseReduce ==
    /\ pc = "parsing"
    /\ ActionDefined
    /\ CurrentAction.type = "REDUCE"
    /\ LET p == grammar[CurrentAction.target]
           len == PopCount(p)
           rhsValues == SubSeq(valueStack, Len(valueStack) - len + 1, Len(valueStack))
           states == SubSeq(stateStack, 1, Len(stateStack) - len)
           values == SubSeq(valueStack, 1, Len(valueStack) - len)
           t == states[Len(states)]
       IN  IF reduceThrows(CurrentAction.target, rhsValues)
           THEN /\ pc' = "threw"
                /\ stateStack' = states
                /\ valueStack' = values
                /\ UNCHANGED <<hasError, parseResult>>
           ELSE IF p.lhs \notin DOMAIN gotoTable[t]
           THEN /\ hasError' = TRUE
                /\ parseResult' = "false"
                /\ pc' = "returned"
                /\ stateStack' = states
                /\ valueStack' = values
           ELSE /\ stateStack' = Append(states, gotoTable[t][p.lhs])
                /\ valueStack' = Append(values, reduce(CurrentAction.target, rhsValues))
                /\ UNCHANGED <<hasError, parseResult, pc>>
    /\ UNCHANGED <<builder, parseLog, actionTable, gotoTable, astRoot, tokens, ip, nCalls, gen>>

ParseAccept ==
    /\ pc = "parsing"
    /\ ActionDefined
    /\ CurrentAction.type = "ACC"
    /\ astRoot' = IF valueStack # <<>> THEN valueStack[Len(valueStack)].compUnit ELSE astRoot
    /\ parseResult' = "true"
    /\ pc' = "returned"
    /\ UNCHANGED <<builder, parseLog, actionTable, gotoTable,
                   hasError, tokens, stateStack, valueStack, ip,
                   nCalls, gen>>

ParseStep == ParseError \/ ParseShift \/ ParseReduce \/ ParseAccept

(***************************************************************************)
(* IR object model used by the generator (Module, Function, BasicBlock,    *)
(* IRBuilder, Constant): values, instructions and the insertion point      *)
(***************************************************************************)
ConstantInt(n) == [kind |-> "ConstantInt", type |-> "i32", val |-> n]

\* ConstantInt::get(bool, module)
ConstantBool(b) == [kind |-> "ConstantInt", type |-> "i1", val |-> IF b THEN 1 ELSE 0]

ConstantFP(f) == [kind |-> "ConstantFP", type |-> "float", val |-> f]

PointerTo(t) == [ptr |-> t]

IsPointer(t) == t \in [ptr : {"i32", "float", "void"}]

\* Type::get_pointer_element_type
PointerElementType(t) == IF IsPointer(t) THEN t.ptr ELSE "none"

FunctionValue(name, retType, paramTypes) ==
    [kind |-> "Function", type |-> "function", name |-> name, retType |-> retType,
     paramTypes |-> paramTypes]

\* the type read through a Value*; a null pointer has no type to read
TypeOf(v) == IF v = Null THEN "garbage" ELSE v.type

\* reading through the pointer v: a null v is undefined behaviour, which
\* either faults (oracle "crash") or reads garbage and goes on
Deref(g, v) ==
    IF v # Null \/ g.crashed THEN g
    ELSE [g EXCEPT !.ub = TRUE, !.crashed = (g.oracle = "crash")]

\* IRBuilder::create_*: the instruction is appended at the insertion point
Emit(g, op, type, operands, targets) ==
    IF g.crashed \/ g.insertBB = 0 THEN [g EXCEPT !.val = Null]
    ELSE [g EXCEPT !.blocks[g.insertBB].insts =
                        Append(@, [id |-> g.nextId, op |-> op, type |-> type,
                                   operands |-> operands, targets |-> targets]),
                   !.nextId = @ + 1,
                   !.val = [kind |-> "Instruction", type |-> type, id |-> g.nextId]]

\* BasicBlock::create(module, name, func): a new empty block of func; its
\* id is left in val
CreateBlock(g, name) ==
    IF g.crashed THEN g
    ELSE [g EXCEPT !.blocks = Append(@, [func |-> g.currentFunction, name |-> name,
                                         insts |-> <<>>]),
                   !.val = Len(g.blocks) + 1]

IsTerminator(inst) == inst.op \in {"ret", "br"}

\* BasicBlock::get_terminator: the last instruction when it is a ret or br
HasTerminator(g, bb) ==
    /\ bb # 0
    /\ g.blocks[bb].insts # <<>>
    /\ IsTerminator(g.blocks[bb].insts[Len(g.blocks[bb].insts)])

\* currentBB = bb; builder->set_insert_point(bb)
SetBlock(g, bb) == IF g.crashed THEN g ELSE [g EXCEPT !.currentBB = bb, !.insertBB = bb]

Report(g, kind, name) ==
    IF g.crashed THEN g ELSE [g EXCEPT !.errors = Append(@, [kind |-> kind, name |-> name])]

\* the record kept of the symbol table's use: a scope entered ("enter") or
\* left ("exit"), a name bound ("decl") or refused ("rejected"), a name
\* looked up ("use") with the value found, each with the depth of the scope
\* stack at that moment
LogScope(g, ev, name, value) ==
    IF g.crashed THEN g
    ELSE [g EXCEPT !.scopeLog = Append(@, [ev |-> ev, name |-> name, value |-> value,
                                           depth |-> Len(g.scopes)])]

(***************************************************************************)
(* SymbolTable.h                                                           *)
(***************************************************************************)
\* a scope with no names: std::map<std::string, SymbolInfo>()
EmptyScope == <<>>

SymbolInfo(v, t, c, gl) == [value |-> v, type |-> t, isConst |-> c, isGlobal |-> gl]

\* Scope::insert: an existing name is kept
ScopeInsert(scope, name, info) ==
    IF name \in DOMAIN scope THEN scope ELSE (name :> info) @@ scope

isGlobalScope(scopes) == Len(scopes) = 1

enterScope(scopes) == Append(scopes, EmptyScope)

exitScope(scopes) == IF Len(scopes) > 1 THEN SubSeq(scopes, 1, Len(scopes) - 1) ELSE scopes

\* SymbolTable::insert
insert(scopes, name, value, type, isConst) ==
    IF scopes = <<>> THEN scopes
    ELSE [scopes EXCEPT ![Len(scopes)] =
            ScopeInsert(@, name, SymbolInfo(value, type, isConst, isGlobalScope(scopes)))]

\* SymbolTable::put
\* put that binds nothing
putNothing(scopes, name, value) == scopes

put(scopes, name, value) ==
    IF scopes = <<>> THEN scopes
    ELSE [scopes EXCEPT ![Len(scopes)] =
            ScopeInsert(@, name, SymbolInfo(value, Null, FALSE, isGlobalScope(scopes)))]

\* lookup that walks the scopes from the global one inwards
lookupOutermost(scopes, name) ==
    LET hits == {k \in DOMAIN scopes : name \in DOMAIN scopes[k]}
    IN  IF hits = {} THEN Null
        ELSE scopes[CHOOSE k \in hits : \A j \in hits : k <= j][name]

\* SymbolTable::lookup: innermost scope first; Null when unbound
lookup(scopes, name) ==
    LET hits == {k \in DOMAIN scopes : name \in DOMAIN scopes[k]}
    IN  IF hits = {} THEN Null
        ELSE scopes[CHOOSE k \in hits : \A j \in hits : j <= k][name]

lookupCurrentScope(scopes, name) ==
    IF scopes = <<>> THEN Null
    ELSE IF name \in DOMAIN scopes[Len(scopes)] THEN scopes[Len(scopes)][name]
    ELSE Null

\* SymbolTable::getValue
getValue(scopes, name) ==
    LET info == lookup(scopes, name) IN IF info # Null THEN info.value ELSE Null

(***************************************************************************)
(* IRGenerator: construction and helpers                                   *)
(***************************************************************************)
bTypeToLLVMType(bType) ==
    CASE bType = "INT" -> "i32"
      [] bType = "FLOAT" -> "float"
      [] bType = "VOID" -> "void"
      [] OTHER -> "i32"

\* the functions declareRuntimeFunctions creates in the module
declareRuntimeFunctions == <<
    FunctionValue("getint", "i32", <<>>),
    FunctionValue("getch", "i32", <<>>),
    FunctionValue("getarray", "i32", <<PointerTo("i32")>>),
    FunctionValue("putint", "void", <<"i32">>),
    FunctionValue("putch", "void", <<"i32">>),
    FunctionValue("putarray", "void", <<"i32", PointerTo("i32")>>),
    FunctionValue("starttime", "void", <<>>),
    FunctionValue("stoptime", "void", <<>>) >>


\* the generator after IRGenerator::IRGenerator
IRGenerator ==
    [globals |-> <<>>,
     functions |-> declareRuntimeFunctions,
     blocks |-> <<>>,
     scopes |-> << EmptyScope >>,
     currentFunction |-> 0,
     currentBB |-> 0,
     insertBB |-> 0,
     nextId |-> 1,
     errors |-> <<>>,
     rhsLog |-> <<>>,
     funcLog |-> <<>>,
     defLog |-> <<>>,
     scopeLog |-> <<>>,
     ifLog |-> <<>>,
     val |-> Null,
     oracle |-> "none",
     ub |-> FALSE,
     crashed |-> FALSE,
     phase |-> "running",
     declIdx |-> 0,
     funcIdx |-> 0]

ensureInt32(g, val) ==
    LET g1 == Deref(g, val)
    IN  IF TypeOf(val) = "i1" THEN Emit(g1, "zext", "i32", <<val>>, <<>>)
        ELSE [g1 EXCEPT !.val = val]

ensureInt1(g, val) ==
    LET g1 == Deref(g, val)
    IN  IF TypeOf(val) = "i32"
        THEN Emit(g1, "icmp_ne", "i1", <<val, ConstantInt(0)>>, <<>>)
        ELSE [g1 EXCEPT !.val = val]

RECURSIVE evalConstInt(_)
evalConstInt(node) ==
    IF node = Null THEN 0
    ELSE IF node.type = "Number" THEN node.intVal
    ELSE IF node.type = "AddExp"
    THEN IF node.left = Null /\ node.right # Null THEN evalConstInt(node.right) ELSE 0
    ELSE IF node.type = "MulExp"
    THEN IF node.left = Null /\ node.right # Null THEN evalConstInt(node.right) ELSE 0
    ELSE IF node.type = "UnaryExp"
    THEN IF node.unaryType = "PRIMARY" THEN evalConstInt(node.primaryExp)
         ELSE IF node.unaryType = "UNARY_OP"
         THEN LET val == evalConstInt(node.unaryExp)
              IN  CASE node.unaryOp = "PLUS" -> val
                    [] node.unaryOp = "MINUS" -> -val
                    [] node.unaryOp = "NOT" -> IF val = 0 THEN 1 ELSE 0
         ELSE 0
    ELSE IF node.type = "PrimaryExp"
    THEN IF node.primaryType = "NUMBER" THEN node.number.intVal
         ELSE IF node.primaryType = "PAREN_EXP" THEN evalConstInt(node.exp)
         ELSE 0
    ELSE 0

evalConstFloat(node) ==
    IF node # Null /\ node.type = "Number"
    THEN IF node.isFloat THEN node.floatVal ELSE FloatOf(node.intVal)
    ELSE FloatOf(0)

(***************************************************************************)
(* IRGenerator: expression visitors.  Each visitor maps the generator g to *)
(* the generator after the visit; the Value* it returns is left in g.val.  *)
(***************************************************************************)
\* Function::get_return_type of a callee
ReturnTypeOf(funcVal) == IF funcVal.kind = "Function" THEN funcVal.retType ELSE "garbage"

\* the type promotion and instruction selection shared by the binary
\* visitors: both operand types are read, i32 operands are converted when
\* either side is float
BinaryInst(g, left, right, intOp, floatOp, intType, floatType) ==
    LET isFloat == TypeOf(left) = "float" \/ TypeOf(right) = "float"
        Convert(x, v) == IF isFloat /\ TypeOf(v) = "i32"
                         THEN Emit(x, "sitofp", "float", <<v>>, <<>>)
                         ELSE [x EXCEPT !.val = v]
        Create(x, l) == IF isFloat
                        THEN Emit(x, floatOp, floatType, <<l, x.val>>, <<>>)
                        ELSE Emit(x, intOp, intType, <<l, x.val>>, <<>>)
        Right(x) == Create(Convert(x, right), x.val)
    IN  Right(Convert(Deref(Deref(g, left), right), left))

visitNumber(g, node) ==
    [g EXCEPT !.val = IF node.isFloat THEN ConstantFP(node.floatVal)
                      ELSE ConstantInt(node.intVal)]

visitLVal(g, node, load) ==
    LET info == lookup(g.scopes, node.ident)
        Found(x) ==
            IF load
            THEN IF info.value.kind = "Argument" THEN [x EXCEPT !.val = info.value]
                 ELSE Emit(x, "load", PointerElementType(info.value.type),
                           <<info.value>>, <<>>)
            ELSE [x EXCEPT !.val = info.value]
    IN  IF g.crashed THEN g
        ELSE IF info = Null
        THEN [Report(LogScope(g, "use", node.ident, Null), "undefined variable",
                     node.ident) EXCEPT !.val = Null]
        ELSE Found(LogScope(g, "use", node.ident, info.value))

\* a call of a member function of the generator on an AST node
RECURSIVE Call(_, _, _)
RECURSIVE visitArgs(_, _, _, _)

visitPrimaryExp(g, node) ==
    CASE node.primaryType = "PAREN_EXP" -> Call(g, "visitExp", node.exp)
      [] node.primaryType = "LVAL" -> visitLVal(g, node.lVal, TRUE)
      [] node.primaryType = "NUMBER" -> visitNumber(g, node.number)
      [] OTHER -> [g EXCEPT !.val = Null]

\* the argument loop of a call: the values are collected in g.val
visitArgs(g, args, i, acc) ==
    IF i > Len(args) THEN [g EXCEPT !.val = acc]
    ELSE LET Rest(g1) == visitArgs(g1, args, i + 1, Append(acc, g1.val))
         IN  Rest(Call(g, "visitExp", args[i]))

visitUnaryExp(g, node) ==
    CASE node.unaryType = "PRIMARY" -> Call(g, "visitPrimaryExp", node.primaryExp)
      [] node.unaryType = "FUNC_CALL" ->
            LET funcVal == getValue(g.scopes, node.funcName)
                Invoke(ga) == Emit(ga, "call", ReturnTypeOf(funcVal),
                                   <<funcVal>> \o ga.val, <<>>)
            IN  IF funcVal = Null
                THEN [Report(g, "undefined function", node.funcName) EXCEPT !.val = Null]
                ELSE Invoke(visitArgs(g, node.args, 1, <<>>))
      [] node.unaryType = "UNARY_OP" ->
            LET Apply(g1, val) ==
                    CASE node.unaryOp = "PLUS" -> g1
                      [] node.unaryOp = "MINUS" ->
                            IF TypeOf(val) = "float"
                            THEN Emit(Deref(g1, val), "fsub", "float",
                                      <<ConstantFP(FloatOf(0)), val>>, <<>>)
                            ELSE Emit(Deref(g1, val), "isub", "i32",
                                      <<ConstantInt(0), val>>, <<>>)
                      [] node.unaryOp = "NOT" ->
                            Emit(g1, "icmp_eq", "i1", <<val, ConstantInt(0)>>, <<>>)
                      [] OTHER -> [g1 EXCEPT !.val = Null]
                Operand(g1) == Apply(g1, g1.val)
            IN  Operand(Call(g, "visitUnaryExp", node.unaryExp))
      [] OTHER -> [g EXCEPT !.val = Null]

visitMulExp(g, node) ==
    IF node.left = Null THEN Call(g, "visitUnaryExp", node.right)
    ELSE LET Create(g2, left) ==
                 CASE node.op = "MUL" ->
                        BinaryInst(g2, left, g2.val, "imul", "fmul", "i32", "float")
                   [] node.op = "DIV" ->
                        BinaryInst(g2, left, g2.val, "isdiv", "fdiv", "i32", "float")
                   [] node.op = "MOD" ->
                        BinaryInst(g2, left, g2.val, "irem", "irem", "i32", "i32")
                   [] OTHER -> [g2 EXCEPT !.val = Null]
             Right(g1) == Create(Call(g1, "visitUnaryExp", node.right), g1.val)
         IN  Right(Call(g, "visitMulExp", node.left))

visitAddExp(g, node) ==
    IF node.left = Null THEN Call(g, "visitMulExp", node.right)
    ELSE LET Create(g2, left) ==
                 CASE node.op = "ADD" ->
                        BinaryInst(g2, left, g2.val, "iadd", "fadd", "i32", "float")
                   [] node.op = "SUB" ->
                        BinaryInst(g2, left, g2.val, "isub", "fsub", "i32", "float")
                   [] OTHER -> [g2 EXCEPT !.val = Null]
             Right(g1) == Create(Call(g1, "visitMulExp", node.right), g1.val)
         IN  Right(Call(g, "visitAddExp", node.left))

visitRelExp(g, node) ==
    IF node.left = Null THEN Call(g, "visitAddExp", node.right)
    ELSE LET Create(g3, left) ==
                 CASE node.op = "LT" ->
                        BinaryInst(g3, left, g3.val, "icmp_lt", "fcmp_lt", "i1", "i1")
                   [] node.op = "GT" ->
                        BinaryInst(g3, left, g3.val, "icmp_gt", "fcmp_gt", "i1", "i1")
                   [] node.op = "LE" ->
                        BinaryInst(g3, left, g3.val, "icmp_le", "fcmp_le", "i1", "i1")
                   [] node.op = "GE" ->
                        BinaryInst(g3, left, g3.val, "icmp_ge", "fcmp_ge", "i1", "i1")
                   [] OTHER -> [g3 EXCEPT !.val = Null]
             Right(g2) == Create(Call(g2, "visitAddExp", node.right), g2.val)
             Left(g1) == Right(ensureInt32(g1, g1.val))
         IN  Left(Call(g, "visitRelExp", node.left))

visitEqExp(g, node) ==
    IF node.left = Null THEN Call(g, "visitRelExp", node.right)
    ELSE LET Create(g4, left) ==
                 CASE node.op = "EQ" ->
                        BinaryInst(g4, left, g4.val, "icmp_eq", "fcmp_eq", "i1", "i1")
                   [] node.op = "NE" ->
                        BinaryInst(g4, left, g4.val, "icmp_ne", "fcmp_ne", "i1", "i1")
                   [] OTHER -> [g4 EXCEPT !.val = Null]
             RightVal(g3, left) == Create(ensureInt32(g3, g3.val), left)
             Right(g2) == RightVal(Call(g2, "visitRelExp", node.right), g2.val)
             Left(g1) == Right(ensureInt32(g1, g1.val))
         IN  Left(Call(g, "visitEqExp", node.left))

\* the record kept of one short-circuit lowering: the blocks involved and
\* the instruction ids and block ids created while the right operand was
\* evaluated
RhsRecord(op, leftBB, rhsBB, mergeBB, before, after) ==
    [op |-> op, leftBB |-> leftBB, rhsBB |-> rhsBB, mergeBB |-> mergeBB,
     firstId |-> before.nextId, endId |-> after.nextId,
     firstBlock |-> Len(before.blocks) + 1, lastBlock |-> Len(after.blocks)]

LogRhs(g, record) ==
    IF g.crashed THEN g ELSE [g EXCEPT !.rhsLog = Append(@, record)]

\* visitLAndExp with the right operand evaluated before the branch on the
\* left one
visitLAndExpEager(g, node) ==
    IF node.left = Null THEN Call(g, "visitEqExp", node.right)
    ELSE LET Lower(g2, rhsBB, mergeBB) ==
                 LET Merge(g9, leftBB, before, after) ==
                         LogRhs(Emit(SetBlock(g9, mergeBB), "phi", "i1",
                                     <<ConstantBool(FALSE), after.val>>,
                                     <<leftBB, g9.currentBB>>),
                                RhsRecord("and", leftBB, rhsBB, mergeBB, before, after))
                     Branch(g8, leftVal, leftBB, before) ==
                         Merge(Emit(SetBlock(Emit(g8, "br", "void", <<leftVal>>,
                                                  <<rhsBB, mergeBB>>), rhsBB),
                                    "br", "void", <<>>, <<mergeBB>>),
                               leftBB, before, g8)
                     RightVal(g7, leftVal, leftBB, before) ==
                         Branch(ensureInt1(g7, g7.val), leftVal, leftBB, before)
                     Right(g4) ==
                         RightVal(Call(g4, "visitEqExp", node.right), g4.val,
                                  g4.currentBB, g4)
                     Left(g3) == Right(ensureInt1(g3, g3.val))
                 IN  Left(Call(g2, "visitLAndExp", node.left))
             Second(g2, rhsBB) == Lower(g2, rhsBB, g2.val)
             First(g1) == Second(CreateBlock(g1, ""), g1.val)
         IN  First(CreateBlock(g, ""))

visitLAndExp(g, node) ==
    IF node.left = Null THEN Call(g, "visitEqExp", node.right)
    ELSE LET Lower(g2, rhsBB, mergeBB) ==
                 LET Merge(g9, leftBB, before, after) ==
                         LogRhs(Emit(SetBlock(g9, mergeBB), "phi", "i1",
                                     <<ConstantBool(FALSE), after.val>>,
                                     <<leftBB, g9.currentBB>>),
                                RhsRecord("and", leftBB, rhsBB, mergeBB, before, after))
                     RightEnd(g8, leftBB, before) ==
                         Merge(Emit(g8, "br", "void", <<>>, <<mergeBB>>),
                               leftBB, before, g8)
                     RightVal(g7, leftBB, before) ==
                         RightEnd(ensureInt1(g7, g7.val), leftBB, before)
                     Right(g6, leftBB) ==
                         RightVal(Call(g6, "visitEqExp", node.right), leftBB, g6)
                     Branch(g4) ==
                         Right(SetBlock(Emit(g4, "br", "void", <<g4.val>>,
                                             <<rhsBB, mergeBB>>), rhsBB),
                               g4.currentBB)
                     Left(g3) == Branch(ensureInt1(g3, g3.val))
                 IN  Left(Call(g2, "visitLAndExp", node.left))
             Second(g2, rhsBB) == Lower(g2, rhsBB, g2.val)
             First(g1) == Second(CreateBlock(g1, ""), g1.val)
         IN  First(CreateBlock(g, ""))

visitLOrExp(g, node) ==
    IF node.left = Null THEN Call(g, "visitLAndExp", node.right)
    ELSE LET Lower(g2, rhsBB, mergeBB) ==
                 LET Merge(g9, leftBB, before, after) ==
                         LogRhs(Emit(SetBlock(g9, mergeBB), "phi", "i1",
                                     <<ConstantBool(TRUE), after.val>>,
                                     <<leftBB, g9.currentBB>>),
                                RhsRecord("or", leftBB, rhsBB, mergeBB, before, after))
                     RightEnd(g8, leftBB, before) ==
                         Merge(Emit(g8, "br", "void", <<>>, <<mergeBB>>),
                               leftBB, before, g8)
                     RightVal(g7, leftBB, before) ==
                         RightEnd(ensureInt1(g7, g7.val), leftBB, before)
                     Right(g6, leftBB) ==
                         RightVal(Call(g6, "visitLAndExp", node.right), leftBB, g6)
                     Branch(g4) ==
                         Right(SetBlock(Emit(g4, "br", "void", <<g4.val>>,
                                             <<mergeBB, rhsBB>>), rhsBB),
                               g4.currentBB)
                     Left(g3) == Branch(ensureInt1(g3, g3.val))
                 IN  Left(Call(g2, "visitLOrExp", node.left))
             Second(g2, rhsBB) == Lower(g2, rhsBB, g2.val)
             First(g1) == Second(CreateBlock(g1, ""), g1.val)
         IN  First(CreateBlock(g, ""))

visitExp(g, node) ==
    IF node = Null THEN [g EXCEPT !.val = Null]
    ELSE CASE node.type = "AddExp" -> Call(g, "visitAddExp", node)
           [] node.type = "MulExp" -> Call(g, "visitMulExp", node)
           [] node.type = "UnaryExp" -> Call(g, "visitUnaryExp", node)
           [] node.type = "PrimaryExp" -> Call(g, "visitPrimaryExp", node)
           [] node.type = "LVal" -> visitLVal(g, node, TRUE)
           [] node.type = "Number" -> visitNumber(g, node)
           [] node.type = "RelExp" -> Call(g, "visitRelExp", node)
           [] node.type = "EqExp" -> Call(g, "visitEqExp", node)
           [] node.type = "LAndExp" -> Call(g, "visitLAndExp", node)
           [] node.type = "LOrExp" -> Call(g, "visitLOrExp", node)
           [] OTHER -> [g EXCEPT !.val = Null]

visitCond(g, node) ==
    IF node.lOrExp # Null THEN Call(g, "visitLOrExp", node.lOrExp) ELSE [g EXCEPT !.val = Null]

(***************************************************************************)
(* IRGenerator: declarations, statements and functions                     *)
(***************************************************************************)
\* GlobalVariable::create: the variable is added to the module
createGlobalVariable(g, name, type, isConst, init) ==
    IF g.crashed THEN g
    ELSE [g EXCEPT !.globals = Append(@, [name |-> name, type |-> type,
                                          isConst |-> isConst, init |-> init]),
                   !.val = [kind |-> "GlobalVariable", type |-> PointerTo(type),
                            name |-> name]]

createLocalVariable(g, name, type) == Emit(g, "alloca", PointerTo(type), <<>>, <<>>)

\* the initializer constant of a global definition
GlobalInit(node, bType) ==
    IF node.initVal # Null
    THEN IF bType = "INT" THEN ConstantInt(evalConstInt(node.initVal))
         ELSE ConstantFP(evalConstFloat(node.initVal))
    ELSE ConstantInt(0)

Bind(g, name, value, type, isConst) ==
    IF g.crashed THEN g
    ELSE [g EXCEPT !.scopes = insert(@, name, value, type, isConst),
                   !.scopeLog = Append(@, [ev |-> "decl", name |-> name, value |-> value,
                                           depth |-> Len(g.scopes)])]

visitConstDef(g, node, bType) ==
    LET type == bTypeToLLVMType(bType)
        name == node.ident
        Global(g1) == Bind(g1, name, g1.val, type, TRUE)
        Store(gi, alloca) == Emit(gi, "store", "void", <<gi.val, alloca>>, <<>>)
        Local(g1) ==
            Bind(IF node.initVal # Null
                 THEN Store(Call(g1, "visitExp", node.initVal), g1.val)
                 ELSE g1,
                 name, g1.val, type, TRUE)
    IN  IF lookupCurrentScope(g.scopes, name) # Null
        THEN LogScope(Report(g, "redefinition", name), "rejected", name, Null)
        ELSE IF isGlobalScope(g.scopes)
        THEN Global(createGlobalVariable(g, name, type, TRUE, GlobalInit(node, bType)))
        ELSE Local(createLocalVariable(g, name, type))

\* visitVarDef that reports a duplicate and defines it all the same
visitVarDefNoReturn(g, node, bType) ==
    LET type == bTypeToLLVMType(bType)
        name == node.ident
        Global(g1) == Bind(g1, name, g1.val, type, FALSE)
        Store(gi, alloca) == Emit(gi, "store", "void", <<gi.val, alloca>>, <<>>)
        Local(g1) ==
            Bind(IF node.initVal # Null
                 THEN Store(Call(g1, "visitExp", node.initVal), g1.val)
                 ELSE g1,
                 name, g1.val, type, FALSE)
        Define(g0) ==
            IF isGlobalScope(g0.scopes)
            THEN Global(createGlobalVariable(g0, name, type, FALSE, GlobalInit(node, bType)))
            ELSE Local(createLocalVariable(g0, name, type))
    IN  Define(IF lookupCurrentScope(g.scopes, name) # Null
               THEN LogScope(Report(g, "redefinition", name), "rejected", name, Null)
               ELSE g)

visitVarDef(g, node, bType) ==
    LET type == bTypeToLLVMType(bType)
        name == node.ident
        Global(g1) == Bind(g1, name, g1.val, type, FALSE)
        Store(gi, alloca) == Emit(gi, "store", "void", <<gi.val, alloca>>, <<>>)
        Local(g1) ==
            Bind(IF node.initVal # Null
                 THEN Store(Call(g1, "visitExp", node.initVal), g1.val)
                 ELSE g1,
                 name, g1.val, type, FALSE)
    IN  IF lookupCurrentScope(g.scopes, name) # Null
        THEN LogScope(Report(g, "redefinition", name), "rejected", name, Null)
        ELSE IF isGlobalScope(g.scopes)
        THEN Global(createGlobalVariable(g, name, type, FALSE, GlobalInit(node, bType)))
        ELSE Local(createLocalVariable(g, name, type))

\* what a definition can change: the symbol table, the module's globals,
\* the instructions created, the errors reported
DefView(g) ==
    [scopes |-> g.scopes, globals |-> g.globals, nextId |-> g.nextId,
     errors |-> g.errors]

\* the record kept of one visited definition: the generator before and
\* after it
LogDef(before, after, name) ==
    IF after.crashed THEN after
    ELSE [after EXCEPT !.defLog = Append(@, [name |-> name, before |-> DefView(before),
                                             after |-> DefView(after)])]

RECURSIVE visitConstDefs(_, _, _, _)
visitConstDefs(g, defs, bType, i) ==
    IF i > Len(defs) THEN g
    ELSE visitConstDefs(LogDef(g, visitConstDef(g, defs[i], bType), defs[i].ident),
                        defs, bType, i + 1)

RECURSIVE visitVarDefs(_, _, _, _)
visitVarDefs(g, defs, bType, i) ==
    IF i > Len(defs) THEN g
    ELSE visitVarDefs(LogDef(g, visitVarDef(g, defs[i], bType), defs[i].ident),
                      defs, bType, i + 1)

visitConstDecl(g, node) == visitConstDefs(g, node.constDefs, node.bType, 1)

visitVarDecl(g, node) == visitVarDefs(g, node.varDefs, node.bType, 1)

visitDecl(g, node) ==
    IF node.type = "ConstDecl" THEN visitConstDecl(g, node)
    ELSE IF node.type = "VarDecl" THEN visitVarDecl(g, node)
    ELSE g

RECURSIVE visitBlockItems(_, _, _)

visitBlockItem(g, node) ==
    IF node.decl # Null THEN Call(g, "visitDecl", node.decl)
    ELSE IF node.stmt # Null THEN Call(g, "visitStmt", node.stmt)
    ELSE g

visitBlockItems(g, items, i) ==
    IF i > Len(items) \/ g.crashed THEN g
    ELSE visitBlockItems(visitBlockItem(g, items[i]), items, i + 1)

\* visitBlock without a scope of its own
visitBlockShared(g, node) == visitBlockItems(g, node.items, 1)

visitBlock(g, node) ==
    LET Exit(g2) ==
            IF g2.crashed THEN g2
            ELSE LogScope([g2 EXCEPT !.scopes = exitScope(@)], "exit", "", Null)
    IN  Exit(visitBlockItems(IF g.crashed THEN g
                             ELSE LogScope([g EXCEPT !.scopes = enterScope(@)],
                                           "enter", "", Null),
                             node.items, 1))

visitAssignStmt(g, node) ==
    LET Store(g2, addr) == Emit(g2, "store", "void", <<g2.val, addr>>, <<>>)
        Value(g1) == Store(Call(g1, "visitExp", node.exp), g1.val)
    IN  Value(visitLVal(g, node.lVal, FALSE))

visitExpStmt(g, node) == IF node.exp # Null THEN Call(g, "visitExp", node.exp) ELSE g

visitBlockStmt(g, node) == IF node.block # Null THEN Call(g, "visitBlock", node.block) ELSE g

visitReturnStmt(g, node) ==
    LET Ret(g1) == Emit(g1, "ret", "void", <<g1.val>>, <<>>)
    IN  IF node.exp # Null THEN Ret(Call(g, "visitExp", node.exp))
        ELSE Emit(g, "ret", "void", <<>>, <<>>)

\* the record kept of one arm of an if statement when the arm has been
\* visited: the block that is current, whether it ends in a terminator, and
\* how many instructions it holds
ArmRecord(g, arm, mergeBB) ==
    [ev |-> arm, mergeBB |-> mergeBB, endBB |-> g.currentBB,
     terminated |-> HasTerminator(g, g.currentBB),
     count |-> Len(g.blocks[g.currentBB].insts)]

\* the record kept at the end of an if statement
EndRecord(g, mergeBB) ==
    [ev |-> "end", mergeBB |-> mergeBB, endBB |-> g.insertBB, terminated |-> FALSE,
     count |-> Len(g.blocks)]

LogIf(g, record) ==
    IF g.crashed THEN g ELSE [g EXCEPT !.ifLog = Append(@, record)]

\* visitIfStmt with the branch to the merge block added to every arm
visitIfStmtAlwaysBranch(g, node) ==
    LET Close(x, mergeBB, arm) ==
            IF x.crashed THEN x
            ELSE Emit(LogIf(x, ArmRecord(x, arm, mergeBB)), "br", "void", <<>>, <<mergeBB>>)
        Else(g8, elseBB, mergeBB) ==
            IF elseBB # 0 /\ node.elseStmt # Null
            THEN Close(Call(SetBlock(g8, elseBB), "visitStmt", node.elseStmt), mergeBB,
                       "else")
            ELSE g8
        End(g9, mergeBB) == LogIf(g9, EndRecord(g9, mergeBB))
        Then(g6, thenBB, elseBB, mergeBB) ==
            End(SetBlock(Else(Close(Call(SetBlock(g6, thenBB), "visitStmt", node.thenStmt),
                                    mergeBB, "then"),
                              elseBB, mergeBB),
                         mergeBB),
                mergeBB)
        Branch(g5, thenBB, elseBB, mergeBB) ==
            Then(Emit(g5, "br", "void", <<g5.val>>,
                      <<thenBB, IF elseBB # 0 THEN elseBB ELSE mergeBB>>),
                 thenBB, elseBB, mergeBB)
        CondVal(g4, thenBB, elseBB, mergeBB) ==
            Branch(ensureInt1(g4, g4.val), thenBB, elseBB, mergeBB)
        Cond(g3, thenBB, elseBB) ==
            CondVal(Call(g3, "visitCond", node.cond), thenBB, elseBB, g3.val)
        MergeBlock(g2, thenBB) == Cond(CreateBlock(g2, ""), thenBB, g2.val)
        ElseBlock(g1) ==
            MergeBlock(IF node.elseStmt # Null THEN CreateBlock(g1, "")
                       ELSE [g1 EXCEPT !.val = 0],
                       g1.val)
    IN  ElseBlock(CreateBlock(g, ""))

visitIfStmt(g, node) ==
    LET Close(x, mergeBB, arm) ==
            IF x.crashed THEN x
            ELSE IF ~HasTerminator(x, x.currentBB)
            THEN Emit(LogIf(x, ArmRecord(x, arm, mergeBB)), "br", "void", <<>>, <<mergeBB>>)
            ELSE LogIf(x, ArmRecord(x, arm, mergeBB))
        Else(g8, elseBB, mergeBB) ==
            IF elseBB # 0 /\ node.elseStmt # Null
            THEN Close(Call(SetBlock(g8, elseBB), "visitStmt", node.elseStmt), mergeBB,
                       "else")
            ELSE g8
        End(g9, mergeBB) == LogIf(g9, EndRecord(g9, mergeBB))
        Then(g6, thenBB, elseBB, mergeBB) ==
            End(SetBlock(Else(Close(Call(SetBlock(g6, thenBB), "visitStmt", node.thenStmt),
                                    mergeBB, "then"),
                              elseBB, mergeBB),
                         mergeBB),
                mergeBB)
        Branch(g5, thenBB, elseBB, mergeBB) ==
            Then(Emit(g5, "br", "void", <<g5.val>>,
                      <<thenBB, IF elseBB # 0 THEN elseBB ELSE mergeBB>>),
                 thenBB, elseBB, mergeBB)
        CondVal(g4, thenBB, elseBB, mergeBB) ==
            Branch(ensureInt1(g4, g4.val), thenBB, elseBB, mergeBB)
        Cond(g3, thenBB, elseBB) ==
            CondVal(Call(g3, "visitCond", node.cond), thenBB, elseBB, g3.val)
        MergeBlock(g2, thenBB) == Cond(CreateBlock(g2, ""), thenBB, g2.val)
        ElseBlock(g1) ==
            MergeBlock(IF node.elseStmt # Null THEN CreateBlock(g1, "")
                       ELSE [g1 EXCEPT !.val = 0],
                       g1.val)
    IN  ElseBlock(CreateBlock(g, ""))

visitStmt(g, node) ==
    CASE node.stmtType = "ASSIGN" -> visitAssignStmt(g, node)
      [] node.stmtType = "EXP" -> visitExpStmt(g, node)
      [] node.stmtType = "BLOCK" -> visitBlockStmt(g, node)
      [] node.stmtType = "IF" -> visitIfStmt(g, node)
      [] node.stmtType = "RETURN" -> visitReturnStmt(g, node)
      [] OTHER -> g

Call(g, callee, node) ==
    IF g.crashed THEN g
    ELSE CASE callee = "visitExp" -> visitExp(g, node)
           [] callee = "visitPrimaryExp" -> visitPrimaryExp(g, node)
           [] callee = "visitUnaryExp" -> visitUnaryExp(g, node)
           [] callee = "visitMulExp" -> visitMulExp(g, node)
           [] callee = "visitAddExp" -> visitAddExp(g, node)
           [] callee = "visitRelExp" -> visitRelExp(g, node)
           [] callee = "visitEqExp" -> visitEqExp(g, node)
           [] callee = "visitLAndExp" -> visitLAndExp(g, node)
           [] callee = "visitLOrExp" -> visitLOrExp(g, node)
           [] callee = "visitCond" -> visitCond(g, node)
           [] callee = "visitDecl" -> visitDecl(g, node)
           [] callee = "visitBlock" -> visitBlock(g, node)
           [] callee = "visitStmt" -> visitStmt(g, node)

\* the parameter loop of visitFuncDef: a slot per parameter, the argument
\* stored into it, the name bound to the slot
RECURSIVE visitParams(_, _, _)
visitParams(g, params, i) ==
    IF i > Len(params) THEN g
    ELSE LET paramType == bTypeToLLVMType(params[i].bType)
             Slot(g1) ==
                 Bind(Emit(g1, "store", "void",
                           <<[kind |-> "Argument", type |-> paramType, idx |-> i], g1.val>>,
                           <<>>),
                      params[i].ident, g1.val, paramType, FALSE)
         IN  visitParams(Slot(createLocalVariable(g, params[i].ident, paramType)),
                         params, i + 1)

\* the return appended to a function whose last block lacks a terminator
DefaultReturn(g, retType) ==
    IF retType = "void" THEN Emit(g, "ret", "void", <<>>, <<>>)
    ELSE Emit(g, "ret", "void", <<ConstantInt(0)>>, <<>>)

\* the record kept of one function definition: the block that was current
\* at the end of the body and what it held before the default return
FuncRecord(node, g) ==
    [name |-> node.ident, returnType |-> node.returnType, func |-> g.currentFunction,
     finalBB |-> g.currentBB,
     terminated |-> HasTerminator(g, g.currentBB),
     insts |-> IF g.currentBB = 0 THEN <<>> ELSE g.blocks[g.currentBB].insts]

visitFuncDef(g, node) ==
    LET retType == bTypeToLLVMType(node.returnType)
        paramTypes == [k \in 1..Len(node.params) |-> bTypeToLLVMType(node.params[k].bType)]
        func == FunctionValue(node.ident, retType, paramTypes)
        Finish(g7, g6) ==
            IF g7.crashed THEN g7
            ELSE LogScope([g7 EXCEPT !.scopes = exitScope(@), !.currentFunction = 0,
                                     !.funcLog = Append(@, FuncRecord(node, g6))],
                          "exit", "", Null)
        End(g6) ==
            Finish(IF g6.currentBB # 0 /\ ~HasTerminator(g6, g6.currentBB)
                   THEN DefaultReturn(g6, retType) ELSE g6,
                   g6)
        Body(g5) ==
            End(IF node.block # Null THEN visitBlockItems(g5, node.block.items, 1) ELSE g5)
        Entry(g2) ==
            Body(visitParams(LogScope([SetBlock(g2, g2.val) EXCEPT
                                           !.scopes = enterScope(@)],
                                      "enter", "", Null),
                             node.params, 1))
    IN  Entry(CreateBlock([g EXCEPT !.functions = Append(@, func),
                                    !.currentFunction = Len(g.functions) + 1,
                                    !.scopes = put(@, node.ident, func),
                                    !.scopeLog = Append(@, [ev |-> "put",
                                                            name |-> node.ident,
                                                            value |-> func,
                                                            depth |-> Len(g.scopes)])],
                          node.ident \o "_ENTRY"))

(***************************************************************************)
(* IRGenerator::generate, one top-level element at a time                  *)
(***************************************************************************)
\* what a read through a null pointer can do: fault, or read garbage
UBOutcomes == {"crash", "garbage"}

\* the generator after one loop iteration of visitCompUnit: the process is
\* gone after a fault
Step(g, loop) ==
    IF g.crashed THEN [g EXCEPT !.phase = "crashed", !.oracle = "none"]
    ELSE IF loop = "decls" THEN [g EXCEPT !.declIdx = @ + 1, !.oracle = "none"]
    ELSE [g EXCEPT !.funcIdx = @ + 1, !.oracle = "none"]

(***************************************************************************)
(* Specifications                                                          *)
(***************************************************************************)
\* the state after "SLRParser parser;"
Init ==
    /\ actionTable = buildTable(grammar, canonicalCollection, follow)
    /\ gotoTable = collection.gotoTable
    /\ astRoot = Null
    /\ hasError = FALSE
    /\ tokens = <<>>
    /\ stateStack = <<>>
    /\ valueStack = <<>>
    /\ ip = 0
    /\ pc = "ready"
    /\ parseResult = "none"
    /\ nCalls = 0
    /\ parseLog = <<>>
    /\ builder = Null
    /\ gen = Null

\* the driver of main.cpp: a fresh parser parses one token vector
Parse == pc = "ready" /\ \E input \in Inputs : ParseBegin(input)

\* main.cpp: after a successful parse with a non-null AST the generator is
\* constructed
GenBegin ==
    /\ pc = "returned"
    /\ parseResult = "true"
    /\ astRoot # Null
    /\ gen = Null
    /\ gen' = IRGenerator
    /\ UNCHANGED parserVars

\* visitCompUnit, first loop: the next global declaration
GenDecl ==
    /\ gen # Null
    /\ gen.phase = "running"
    /\ gen.declIdx < Len(astRoot.decls)
    /\ \E o \in UBOutcomes :
         gen' = Step(visitDecl([gen EXCEPT !.oracle = o], astRoot.decls[gen.declIdx + 1]),
                     "decls")
    /\ UNCHANGED parserVars

\* visitCompUnit, second loop: the next function definition
GenFuncDef ==
    /\ gen # Null
    /\ gen.phase = "running"
    /\ gen.declIdx >= Len(astRoot.decls)
    /\ gen.funcIdx < Len(astRoot.funcDefs)
    /\ \E o \in UBOutcomes :
         gen' = Step(visitFuncDef([gen EXCEPT !.oracle = o],
                                  astRoot.funcDefs[gen.funcIdx + 1]), "funcs")
    /\ UNCHANGED parserVars

\* generate returns: both loops are over
GenEnd ==
    /\ gen # Null
    /\ gen.phase = "running"
    /\ gen.declIdx >= Len(astRoot.decls)
    /\ gen.funcIdx >= Len(astRoot.funcDefs)
    /\ gen' = [gen EXCEPT !.phase = "done"]
    /\ UNCHANGED parserVars

Next ==
    \/ Parse
    \/ ParseError
    \/ ParseShift
    \/ ParseReduce
    \/ ParseAccept
    \/ GenBegin
    \/ GenDecl
    \/ GenFuncDef
    \/ GenEnd

Spec == Init /\ [][Next]_vars

\* one parser object used for several parse calls, each on one of the
\* token vectors of ReuseSources
ReuseSources == {
    <<"int", "a", ";">>,
    <<"int", "a", "=", ";">>,
    <<"int", "f", "(", ")", "{", "return", "1", ";", "}">>,
    <<"int", "a">> }

ParseCall ==
    /\ pc \in {"ready", "returned", "threw"}
    /\ nCalls < MaxParses
    /\ \E src \in ReuseSources : ParseBegin(Lex(src))

NextReuse == ParseCall \/ ParseError \/ ParseShift \/ ParseReduce \/ ParseAccept

SpecReuse == Init /\ [][NextReuse]_vars

\* one call of parse on its own; the loop of parse runs without interruption,
\* so a step of the loop that can be taken is taken
NextParse == Parse \/ ParseError \/ ParseShift \/ ParseReduce \/ ParseAccept

SpecParse == Init /\ [][NextParse]_vars /\ WF_vars(ParseStep)

(***************************************************************************)
(* Construction of the tables (SLRParser::SLRParser)                       *)
(***************************************************************************)
MaxProductions == 3

\* productions a list may hold after  S' -> Program
ProductionPool == <<
    [lhs |-> "Program", rhs |-> <<"if", "Program", "ElsePart">>],
    [lhs |-> "ElsePart", rhs |-> <<"else", "Program">>],
    [lhs |-> "ElsePart", rhs |-> <<"epsilon">>],
    [lhs |-> "Program", rhs |-> <<"exp">>],
    [lhs |-> "Program", rhs |-> <<"Ident">>],
    [lhs |-> "exp", rhs |-> <<"Ident">>],
    [lhs |-> "exp", rhs |-> <<"epsilon">>],
    [lhs |-> "Program", rhs |-> <<"Program", "exp">>],
    [lhs |-> "Program", rhs |-> <<"exp", "lVal", ";">>],
    [lhs |-> "lVal", rhs |-> <<"epsilon">>] >>

\* the production list made of  S' -> Program  and the given productions,
\* numbered from 1 in the order given
NumberedGrammar(ps) ==
    [k \in 1..(Len(ps) + 1) |->
        IF k = 1 THEN [id |-> 1, lhs |-> "S'", rhs |-> <<"Program">>]
        ELSE [id |-> k, lhs |-> ps[k - 1].lhs, rhs |-> ps[k - 1].rhs]]

\* two conditionals: the first lists its empty alternative before the one
\* that starts with a terminal, the second lists them the other way round
TwoConditionals ==
    NumberedGrammar(<<
        [lhs |-> "Program", rhs |-> <<"if", "Program", "ElsePart">>],
        [lhs |-> "ElsePart", rhs |-> <<"epsilon">>],
        [lhs |-> "ElsePart", rhs |-> <<"else", "Program">>],
        [lhs |-> "Program", rhs |-> <<"(", "Program", "block">>],
        [lhs |-> "block", rhs |-> <<")", "Program">>],
        [lhs |-> "block", rhs |-> <<"epsilon">>],
        [lhs |-> "Program", rhs |-> <<"Ident">>] >>)

\* the production lists the tables are built for: the grammar of
\* initGrammar and small lists over the pool, in every order
ProductionLists ==
    {grammar, TwoConditionals} \cup
    { NumberedGrammar([k \in DOMAIN ix |-> ProductionPool[ix[k]]]) :
        ix \in {q \in SeqsUpTo(DOMAIN ProductionPool, MaxProductions) :
                   \A a, b \in DOMAIN q : a # b => q[a] # q[b]} }

\* the parser object before its constructor has computed anything
InitTables ==
    /\ builder \in {[G |-> G, phase |-> "initGrammar", first |-> <<>>, follow |-> <<>>,
                      C |-> <<>>, row |-> 0] : G \in ProductionLists}
    /\ actionTable = <<>>
    /\ gotoTable = <<>>
    /\ astRoot = Null
    /\ hasError = FALSE
    /\ tokens = <<>>
    /\ stateStack = <<>>
    /\ valueStack = <<>>
    /\ ip = 0
    /\ pc = "constructing"
    /\ parseResult = "none"
    /\ nCalls = 0
    /\ parseLog = <<>>
    /\ gen = Null

\* what the constructor steps leave alone
constructorUnchanged ==
    <<astRoot, hasError, tokens, stateStack, valueStack, ip, parseResult, nCalls,
      parseLog, gen>>

\* computeFirst()
ConstructFirst ==
    /\ pc = "constructing"
    /\ builder.phase = "initGrammar"
    /\ builder' = [builder EXCEPT !.phase = "computeFirst",
                                   !.first = computeFirst(builder.G)]
    /\ UNCHANGED <<actionTable, gotoTable, pc>>
    /\ UNCHANGED constructorUnchanged

\* computeFollow()
ConstructFollow ==
    /\ pc = "constructing"
    /\ builder.phase = "computeFirst"
    /\ builder' = [builder EXCEPT !.phase = "computeFollow",
                                   !.follow = computeFollow(builder.G, builder.first)]
    /\ UNCHANGED <<actionTable, gotoTable, pc>>
    /\ UNCHANGED constructorUnchanged

\* buildCollection()
ConstructCollection ==
    /\ pc = "constructing"
    /\ builder.phase = "computeFollow"
    /\ LET Built(st) ==
              /\ builder' = [builder EXCEPT !.phase = "buildTable", !.C = st.C]
              /\ gotoTable' = st.gotoTable
       IN  Built(buildCollection(builder.G))
    /\ UNCHANGED <<actionTable, pc>>
    /\ UNCHANGED constructorUnchanged

\* buildTable(): one iteration of the loop over the states; the constructor
\* returns after the last one
ConstructTableRow ==
    /\ pc = "constructing"
    /\ builder.phase = "buildTable"
    /\ builder.row < Len(builder.C)
    /\ actionTable' =
          (builder.row :> FillRow(builder.G, builder.C, builder.follow, builder.row, <<>>,
                                  SortedItems(builder.C[builder.row + 1]), 1)) @@ actionTable
    /\ builder' = [builder EXCEPT !.row = @ + 1]
    /\ pc' = IF builder.row + 1 = Len(builder.C) THEN "ready" ELSE pc
    /\ UNCHANGED gotoTable
    /\ UNCHANGED constructorUnchanged

NextTables == ConstructFirst \/ ConstructFollow \/ ConstructCollection \/ ConstructTableRow

SpecTables == InitTables /\ [][NextTables]_vars

(***************************************************************************)
(* Properties of the parser                                                *)
(***************************************************************************)
\* the programs whose top-level elements are listed next to their source
ListedPrograms == ElementPrograms \cup BodyPrograms

\* what the source text of a top-level element declares
SourceDecl(e) ==
    IF e.src[1] = "const"
    THEN [name |-> e.name, isConst |-> TRUE, bType |-> e.src[2]]
    ELSE [name |-> e.name, isConst |-> FALSE, bType |-> e.src[1]]

SourceFunc(e) == [name |-> e.name, returnType |-> e.src[1]]

TypeWord(bType) ==
    CASE bType = "INT" -> "int" [] bType = "FLOAT" -> "float" [] bType = "VOID" -> "void"

\* what a declaration node / function node of the AST declares
NodeDecl(d) ==
    IF d.type = "ConstDecl"
    THEN [name |-> d.constDefs[1].ident, isConst |-> TRUE, bType |-> TypeWord(d.bType)]
    ELSE [name |-> d.varDefs[1].ident, isConst |-> FALSE, bType |-> TypeWord(d.bType)]

NodeFunc(f) == [name |-> f.ident, returnType |-> TypeWord(f.returnType)]

SourceDecls(p) ==
    LET ds == SelectSeq(p.elems, LAMBDA e : e.kind = "decl")
    IN  [i \in DOMAIN ds |-> SourceDecl(ds[i])]

SourceFuncs(p) ==
    LET fs == SelectSeq(p.elems, LAMBDA e : e.kind = "func")
    IN  [i \in DOMAIN fs |-> SourceFunc(fs[i])]

Accepted == pc = "returned" /\ parseResult = "true"

Rejected == pc = "returned" /\ parseResult = "false"

\* C1: after an accepted parse the AST root is a CompUnit whose decls are
\* exactly the top-level declarations of the source and whose funcDefs are
\* exactly its top-level function definitions, each in source order, so
\* that the two lengths add up to the number of top-level elements.
C1_AcceptedCompUnit ==
    Accepted =>
        /\ astRoot # Null
        /\ astRoot.type = "CompUnit"
        /\ \A p \in ListedPrograms :
             tokens = Lex(p.src) =>
                /\ [i \in DOMAIN astRoot.decls |-> NodeDecl(astRoot.decls[i])]
                       = SourceDecls(p)
                /\ [i \in DOMAIN astRoot.funcDefs |-> NodeFunc(astRoot.funcDefs[i])]
                       = SourceFuncs(p)
                /\ Len(astRoot.decls) + Len(astRoot.funcDefs) = Len(p.elems)

\* an accepted source with a function between two declarations
C1_Witness ==
    /\ Accepted
    /\ \E p \in ElementPrograms :
         /\ tokens = Lex(p.src)
         /\ Len(p.elems) = 2
         /\ p.elems[1].kind = "func"
         /\ p.elems[2].kind = "decl"
         /\ Len(astRoot.decls) = 1
         /\ Len(astRoot.funcDefs) = 1

IntAEq == Lex(<<"int", "a", "=", ";">>)

\* C2: a step taken where ACTION[top state, lookahead] is undefined sets
\* the error flag and returns false, leaving both stacks and the input
\* position as they are (no recovery); and the source "int a = ;" is
\* rejected with the lookahead at ";" once "int", "a" and "=" are shifted.
C2_UndefinedActionFails ==
    /\ [][(pc = "parsing" /\ ~ActionDefined) =>
            /\ pc' = "returned"
            /\ parseResult' = "false"
            /\ hasError'
            /\ UNCHANGED <<stateStack, valueStack, ip, astRoot>>]_vars
    /\ []((pc = "returned" /\ tokens = IntAEq) =>
            /\ parseResult = "false"
            /\ ip = 3
            /\ Lookahead = ";"
            /\ Len(valueStack) = 3
            /\ valueStack[2].terminal = "a"
            /\ valueStack[3].terminal = "="
            /\ astRoot = Null)

\* "int a = ;" has been rejected at its fourth token
C2_Witness == Rejected /\ tokens = IntAEq /\ ip = 3 /\ hasError

\* C3: whenever parse has returned false, getAST() is null, whatever calls
\* were made on the parser object before.
C3_FailedParseNullAST == Rejected => astRoot = Null

(***************************************************************************)
(* Properties of the generator                                             *)
(***************************************************************************)
Generated == gen # Null /\ gen.phase = "done"

\* the blocks holding an instruction whose id is in lo..(hi - 1)
BlocksHolding(g, lo, hi) ==
    {b \in DOMAIN g.blocks :
        \E k \in DOMAIN g.blocks[b].insts : g.blocks[b].insts[k].id \in lo..(hi - 1)}

\* the control-flow edges: pos is 1 for the true (or only) target of a
\* branch, 2 for the false target
Edges(g) ==
    UNION { UNION { { [from |-> b, to |-> g.blocks[b].insts[k].targets[j], pos |-> j,
                       arity |-> Len(g.blocks[b].insts[k].targets)] :
                      j \in DOMAIN g.blocks[b].insts[k].targets } :
                    k \in {n \in DOMAIN g.blocks[b].insts : g.blocks[b].insts[n].op = "br"} } :
            b \in DOMAIN g.blocks }

\* the rhs block of a lowering and the blocks created while its right
\* operand was evaluated
RhsRegion(e) == {e.rhsBB} \cup (e.firstBlock..e.lastBlock)

RhsPlaced(g, e) ==
    /\ BlocksHolding(g, e.firstId, e.endId) \subseteq RhsRegion(e)
    /\ e.leftBB \notin RhsRegion(e)
    /\ e.mergeBB \notin RhsRegion(e)
    /\ {x \in Edges(g) : x.to = e.rhsBB} =
           { [from |-> e.leftBB, to |-> e.rhsBB,
              pos |-> IF e.op = "and" THEN 1 ELSE 2, arity |-> 2] }
    /\ \A x \in Edges(g) : x.to \in RhsRegion(e) \ {e.rhsBB} => x.from \in RhsRegion(e)

\* C4: in every lowering of L && R (L || R) the instructions of R lie in
\* the rhs block or in blocks created while R was evaluated, never in the
\* block of L or the merge block; the rhs block is entered only by the
\* true (false) edge of the conditional branch on L, and the blocks
\* created for R only from within R.
C4_ShortCircuitPlacement ==
    gen # Null => \A i \in DOMAIN gen.rhsLog : RhsPlaced(gen, gen.rhsLog[i])

HoldsCall(g, e) ==
    \E b \in RhsRegion(e) : \E k \in DOMAIN g.blocks[b].insts :
        /\ g.blocks[b].insts[k].op = "call"
        /\ g.blocks[b].insts[k].id \in e.firstId..(e.endId - 1)

\* a unit with an && and an || whose right operands call a function; the
\* right operand of the || created blocks of its own
C4_Witness ==
    /\ Generated
    /\ \E i, j \in DOMAIN gen.rhsLog :
         /\ gen.rhsLog[i].op = "and"
         /\ gen.rhsLog[j].op = "or"
         /\ HoldsCall(gen, gen.rhsLog[i])
         /\ HoldsCall(gen, gen.rhsLog[j])
         /\ gen.rhsLog[j].lastBlock >= gen.rhsLog[j].firstBlock

\* a top-level element that is the first declaration of its name
FirstOfName(p, k) == \A j \in 1..(k - 1) : p.elems[j].name # p.elems[k].name

\* "int x = n ;"
LiteralInit(e) == e.kind = "decl" /\ Len(e.src) = 5 /\ e.src[1] = "int" /\ e.src[3] = "="

\* "T x ;"
NoInit(e) == e.kind = "decl" /\ Len(e.src) = 3

GlobalOf(g, name) == g.globals[CHOOSE i \in DOMAIN g.globals : g.globals[i].name = name]

HasGlobal(g, name) == \E i \in DOMAIN g.globals : g.globals[i].name = name

\* C5: a top-level "int x = n;" yields a global x whose initializer is the
\* integer constant n.
C5_GlobalLiteralInit ==
    Generated =>
        \A p \in ElementPrograms :
            tokens = Lex(p.src) =>
                \A k \in DOMAIN p.elems :
                    (LiteralInit(p.elems[k]) /\ FirstOfName(p, k)) =>
                        /\ HasGlobal(gen, p.elems[k].name)
                        /\ GlobalOf(gen, p.elems[k].name).init
                               = ConstantInt(stoi(p.elems[k].src[4]).val)

ZeroOf(word) == IF word = "float" THEN ConstantFP(FloatOf(0)) ELSE ConstantInt(0)

\* C6: a global declared without an initializer is initialized with the
\* zero constant of its declared type: integer 0 for int, floating-point
\* 0.0 for float.
C6_GlobalZeroInit ==
    Generated =>
        \A p \in ElementPrograms :
            tokens = Lex(p.src) =>
                \A k \in DOMAIN p.elems :
                    (NoInit(p.elems[k]) /\ FirstOfName(p, k)) =>
                        /\ HasGlobal(gen, p.elems[k].name)
                        /\ GlobalOf(gen, p.elems[k].name).init = ZeroOf(p.elems[k].src[1])

\* the return a function of the given return type falls back to
ExpectedReturn(returnType) ==
    CASE returnType = "VOID" -> <<>>
      [] returnType = "INT" -> <<ConstantInt(0)>>
      [] returnType = "FLOAT" -> <<ConstantFP(FloatOf(0))>>

\* C7: when the block current at the end of a function body has no
\* terminator exactly one return is appended to it, empty for void, of
\* integer 0 for int, of floating-point 0.0 for float; a block that ends
\* in a terminator is left as it is.
C7_DefaultReturn ==
    gen # Null =>
        \A i \in DOMAIN gen.funcLog :
            LET e == gen.funcLog[i]
                now == gen.blocks[e.finalBB].insts
            IN  IF e.terminated THEN now = e.insts
                ELSE /\ Len(now) = Len(e.insts) + 1
                     /\ SubSeq(now, 1, Len(e.insts)) = e.insts
                     /\ now[Len(now)].op = "ret"
                     /\ now[Len(now)].operands = ExpectedReturn(e.returnType)

RuntimeNames == {declareRuntimeFunctions[i].name : i \in DOMAIN declareRuntimeFunctions}

CallsTo(g, name) ==
    \E b \in DOMAIN g.blocks : \E k \in DOMAIN g.blocks[b].insts :
        /\ g.blocks[b].insts[k].op = "call"
        /\ g.blocks[b].insts[k].operands[1] # Null
        /\ g.blocks[b].insts[k].operands[1].name = name

PutGetSource ==
    <<"int", "main", "(", ")", "{", "putint", "(", "getint", "(", ")", ")", ";",
      "return", "0", ";", "}">>

\* C8: a call to a runtime function is never reported as a call to an
\* undefined function, and "putint(getint());" emits a call to each.
C8_RuntimeCallsResolve ==
    gen # Null =>
        /\ \A k \in DOMAIN gen.errors :
               ~(gen.errors[k].kind = "undefined function"
                 /\ gen.errors[k].name \in RuntimeNames)
        /\ (Generated /\ tokens = Lex(PutGetSource)) =>
               CallsTo(gen, "putint") /\ CallsTo(gen, "getint")

\* the number of variable and constant definitions generate visits
RECURSIVE CountStmtDefs(_)
RECURSIVE CountItemDefs(_, _)
CountDeclDefs(d) == IF d.type = "ConstDecl" THEN Len(d.constDefs) ELSE Len(d.varDefs)

CountItemDefs(items, i) ==
    IF i > Len(items) THEN 0
    ELSE (IF items[i].decl # Null THEN CountDeclDefs(items[i].decl)
          ELSE IF items[i].stmt # Null THEN CountStmtDefs(items[i].stmt)
          ELSE 0) + CountItemDefs(items, i + 1)

CountStmtDefs(st) ==
    CASE st.stmtType = "BLOCK" ->
            IF st.block # Null THEN CountItemDefs(st.block.items, 1) ELSE 0
      [] st.stmtType = "IF" ->
            CountStmtDefs(st.thenStmt)
            + (IF st.elseStmt # Null THEN CountStmtDefs(st.elseStmt) ELSE 0)
      [] OTHER -> 0

RECURSIVE CountUnitDefs(_, _, _)
CountUnitDefs(cu, i, j) ==
    IF i <= Len(cu.decls) THEN CountDeclDefs(cu.decls[i]) + CountUnitDefs(cu, i + 1, j)
    ELSE IF j <= Len(cu.funcDefs)
    THEN (IF cu.funcDefs[j].block # Null
          THEN CountItemDefs(cu.funcDefs[j].block.items, 1) ELSE 0)
         + CountUnitDefs(cu, i, j + 1)
    ELSE 0

\* a visited definition whose name was bound in the innermost scope
Redeclares(d) == d.name \in DOMAIN d.before.scopes[Len(d.before.scopes)]

\* C9: a definition of a name already bound in the innermost scope adds
\* one redeclaration report and changes nothing else: the symbol table,
\* the globals and the instructions stay as they were; and generation that
\* ends has visited every definition and every function of the unit.
C9_RedeclarationReported ==
    gen # Null =>
        /\ \A i \in DOMAIN gen.defLog :
               LET d == gen.defLog[i]
               IN  Redeclares(d) =>
                     /\ d.after.errors =
                            Append(d.before.errors,
                                   [kind |-> "redefinition", name |-> d.name])
                     /\ d.after.scopes = d.before.scopes
                     /\ d.after.globals = d.before.globals
                     /\ d.after.nextId = d.before.nextId
        /\ Generated =>
               /\ Len(gen.defLog) = CountUnitDefs(astRoot, 1, 1)
               /\ Len(gen.funcLog) = Len(astRoot.funcDefs)

\* a local redeclaration in the first of two functions, both generated
C9_Witness ==
    /\ Generated
    /\ Len(gen.funcLog) = 2
    /\ \E i \in DOMAIN gen.defLog :
         /\ Redeclares(gen.defLog[i])
         /\ Len(gen.defLog[i].before.scopes) = 2

UndefinedReported(g) ==
    \E k \in DOMAIN g.errors : g.errors[k].kind = "undefined variable"

\* C10: after a reference to an unbound identifier has been reported the
\* generator is not aborted, and generation that ends has generated every
\* function of the unit.
C10_UndefinedIdentifierContinues ==
    (gen # Null /\ UndefinedReported(gen)) =>
        /\ gen.phase # "crashed"
        /\ Generated => Len(gen.funcLog) = Len(astRoot.funcDefs)

(***************************************************************************)
(* C11: scoping                                                            *)
(***************************************************************************)
RECURSIVE Innermost(_, _)
\* the binding of name in a stack of scopes, found from the top down
Innermost(stack, name) ==
    IF stack = <<>> THEN Null
    ELSE IF name \in DOMAIN stack[Len(stack)] THEN stack[Len(stack)][name]
    ELSE Innermost(SubSeq(stack, 1, Len(stack) - 1), name)

RECURSIVE ScopesRespected(_, _, _)
\* the events log[k..] agree with block scoping, stack being the bindings
\* of the blocks open before event k: a name is refused only when the
\* innermost block binds it, and a use finds the innermost binding
ScopesRespected(log, k, stack) ==
    IF k > Len(log) THEN TRUE
    ELSE LET e == log[k]
             top == stack[Len(stack)]
             bound == [stack EXCEPT ![Len(stack)] = (e.name :> e.value) @@ @]
         IN  CASE e.ev = "enter" -> ScopesRespected(log, k + 1, Append(stack, <<>>))
               [] e.ev = "exit" ->
                    /\ Len(stack) > 1
                    /\ ScopesRespected(log, k + 1, SubSeq(stack, 1, Len(stack) - 1))
               [] e.ev = "decl" ->
                    /\ e.name \notin DOMAIN top
                    /\ ScopesRespected(log, k + 1, bound)
               [] e.ev = "put" ->
                    ScopesRespected(log, k + 1,
                                    IF e.name \in DOMAIN top THEN stack ELSE bound)
               [] e.ev = "rejected" ->
                    /\ e.name \in DOMAIN top
                    /\ ScopesRespected(log, k + 1, stack)
               [] e.ev = "use" ->
                    /\ e.value = Innermost(stack, e.name)
                    /\ ScopesRespected(log, k + 1, stack)

\* C11: every use of an identifier resolves to the binding of the innermost
\* enclosing scope that declares it: a declaration in a nested block is
\* refused only when that block itself binds the name (an outer binding does
\* not matter), it hides the outer binding until the block is left, and
\* after the block the name resolves to the outer binding again.
C11_InnermostBinding ==
    gen # Null => ScopesRespected(gen.scopeLog, 1, << <<>> >>)

\* a name declared twice, used inside the inner block with the inner
\* binding and after the block with the outer one
C11_Witness ==
    /\ gen # Null
    /\ gen.phase = "done"
    /\ \E h, i, j, k, l \in DOMAIN gen.scopeLog :
         LET log == gen.scopeLog
         IN  /\ h < i /\ i < j /\ j < k /\ k < l
             /\ log[h].ev = "decl" /\ log[i].ev = "decl"
             /\ log[h].name = log[i].name /\ log[h].value # log[i].value
             /\ log[j].ev = "use" /\ log[j].name = log[i].name
             /\ log[j].value = log[i].value
             /\ log[k].ev = "exit"
             /\ log[l].ev = "use" /\ log[l].name = log[h].name
             /\ log[l].value = log[h].value

(***************************************************************************)
(* C12: unrecognized-character tokens                                      *)
(***************************************************************************)
HasErrorToken(ts) == \E i \in DOMAIN ts : ts[i].type = "ERROR"

\* C12: a token vector holding an ERROR token is refused at once: the parse
\* returns false without any table lookup, so nothing of the vector is ever
\* shifted or reduced, wherever the ERROR token stands.
C12_ErrorTokenImmediate ==
    (pc \in {"parsing", "returned", "threw"} /\ HasErrorToken(tokens)) =>
        /\ ip = 0
        /\ stateStack = <<0>>
        /\ valueStack = <<>>
        /\ pc # "threw"
        /\ pc = "returned" => parseResult = "false"

(***************************************************************************)
(* C13: parse returns                                                      *)
(***************************************************************************)
\* C13: every parse call ends by returning true or false; no semantic
\* action raises a fault out of parse, also not for an IntConst whose text
\* denotes a value outside the signed 32-bit range.
C13_ParseNeverThrows ==
    /\ pc # "threw"
    /\ pc = "returned" => parseResult \in {"true", "false"}

(***************************************************************************)
(* C15: the trace log                                                      *)
(***************************************************************************)
\* C15: the parser's trace log has one line per parse step and, after every
\* successful parse, is non-empty and ends with an accept line.
C15_TraceEndsWithAccept ==
    (pc = "returned" /\ parseResult = "true") =>
        /\ parseLog # <<>>
        /\ parseLog[Len(parseLog)].action = "accept"

(***************************************************************************)
(* C16: the two stacks                                                     *)
(***************************************************************************)
\* the step about to be taken is a reduce
ReduceStep == pc = "parsing" /\ ActionDefined /\ CurrentAction.type = "REDUCE"

\* number of right-hand-side symbols, none for the epsilon production
RhsLength(p) == IF p.rhs = <<"epsilon">> THEN 0 ELSE Len(p.rhs)

\* what a reduce does to the stacks: the top n entries of both go, the n
\* values are handed over left to right, one state and one value are pushed
ReducePopsAndPushes ==
    LET p == grammar[CurrentAction.target]
        n == RhsLength(p)
        keptStates == SubSeq(stateStack, 1, Len(stateStack) - n)
        keptValues == SubSeq(valueStack, 1, Len(valueStack) - n)
        handed == [k \in 1..n |-> valueStack[Len(valueStack) - n + k]]
    IN  /\ stateStack' = Append(keptStates, gotoTable[keptStates[Len(keptStates)]][p.lhs])
        /\ valueStack' = Append(keptValues, reduce(CurrentAction.target, handed))

\* C16: at the start of every iteration of the parse loop the value stack
\* holds one element fewer than the state stack, and every reduce by a
\* production with n right-hand-side symbols (0 for epsilon) removes the top
\* n entries of both stacks, hands the n values to the semantic action left
\* to right, and pushes one state, GOTO[new top, LHS], and one value.
C16_StackDiscipline ==
    /\ [](pc = "parsing" => Len(valueStack) = Len(stateStack) - 1)
    /\ [][ReduceStep => ReducePopsAndPushes]_vars

\* the same for the reduces whose semantic action returns
ReturningReducesPopAndPush ==
    /\ [](pc = "parsing" => Len(valueStack) = Len(stateStack) - 1)
    /\ [][(ReduceStep /\ pc' # "threw") => ReducePopsAndPushes]_vars

(***************************************************************************)
(* C17: shape of the binary-expression levels of the AST                   *)
(***************************************************************************)
\* the level below each binary level
LowerLevel ==
    [LOrExp |-> "LAndExp", LAndExp |-> "EqExp", EqExp |-> "RelExp", RelExp |-> "AddExp",
     AddExp |-> "MulExp", MulExp |-> "UnaryExp"]

\* the operator enumerators of the levels that record one
LevelOps ==
    [EqExp |-> {"EQ", "NE"}, RelExp |-> {"LT", "GT", "LE", "GE"}, AddExp |-> {"ADD", "SUB"},
     MulExp |-> {"MUL", "DIV", "MOD"}]

\* the enumerator of an operator symbol of the grammar
OperatorName ==
    [s \in {"==", "!=", "<", ">", "<=", ">=", "+", "-", "*", "/", "%"} |->
        CASE s = "==" -> "EQ" [] s = "!=" -> "NE" [] s = "<" -> "LT" [] s = ">" -> "GT"
          [] s = "<=" -> "LE" [] s = ">=" -> "GE" [] s = "+" -> "ADD" [] s = "-" -> "SUB"
          [] s = "*" -> "MUL" [] s = "/" -> "DIV" [] s = "%" -> "MOD"]

\* a node of a binary level is a pass-through (no left child, a right child of
\* the next lower level) or an extension (a left child of the same level, a
\* right child of the next lower level, an operator of its level)
BinaryNodeShaped(n) ==
    /\ n.right # Null
    /\ n.right.type = LowerLevel[n.type]
    /\ n.left # Null =>
          /\ n.left.type = n.type
          /\ n.type \in DOMAIN LevelOps => n.op \in LevelOps[n.type]

\* every binary-level node below n has that shape
RECURSIVE WellShaped(_)
WellShaped(n) ==
    IF n = Null THEN TRUE
    ELSE CASE n.type \in DOMAIN LowerLevel ->
                BinaryNodeShaped(n) /\ WellShaped(n.left) /\ WellShaped(n.right)
           [] n.type = "UnaryExp" ->
                /\ WellShaped(n.primaryExp)
                /\ WellShaped(n.unaryExp)
                /\ \A k \in DOMAIN n.args : WellShaped(n.args[k])
           [] n.type = "PrimaryExp" -> WellShaped(n.exp)
           [] n.type = "Cond" -> WellShaped(n.lOrExp)
           [] n.type = "Stmt" ->
                /\ WellShaped(n.exp)
                /\ WellShaped(n.cond)
                /\ WellShaped(n.block)
                /\ WellShaped(n.thenStmt)
                /\ WellShaped(n.elseStmt)
           [] n.type = "Block" -> \A k \in DOMAIN n.items : WellShaped(n.items[k])
           [] n.type = "BlockItem" -> WellShaped(n.decl) /\ WellShaped(n.stmt)
           [] n.type = "ConstDecl" -> \A k \in DOMAIN n.constDefs : WellShaped(n.constDefs[k])
           [] n.type = "VarDecl" -> \A k \in DOMAIN n.varDefs : WellShaped(n.varDefs[k])
           [] n.type \in {"ConstDef", "VarDef"} -> WellShaped(n.initVal)
           [] n.type = "FuncDef" -> WellShaped(n.block)
           [] n.type = "CompUnit" ->
                /\ \A k \in DOMAIN n.decls : WellShaped(n.decls[k])
                /\ \A k \in DOMAIN n.funcDefs : WellShaped(n.funcDefs[k])
           [] OTHER -> TRUE

\* every node a semantic value carries
ValueShaped(v) ==
    /\ \A f \in {"compUnit", "decl", "constDecl", "varDecl", "constDef", "varDef",
                  "funcDef", "block", "blockItem", "stmt", "exp", "cond", "primaryExp",
                  "unaryExp", "mulExp", "addExp", "relExp", "eqExp", "lAndExp", "lOrExp"} :
          WellShaped(v[f])
    /\ \A f \in {"constDefList", "varDefList", "blockItemList", "funcRParams"} :
          \A k \in DOMAIN v[f] : WellShaped(v[f][k])

\* the field of a semantic value that holds the node of a nonterminal
FieldOf ==
    [eqExp |-> "eqExp", relExp |-> "relExp", addExp |-> "addExp", mulExp |-> "mulExp"]

\* the reduce about to be taken is by a production  level -> level op lower
\* and its node is on top of the value stack afterwards with that operator
ExtensionRecordsOperator ==
    LET p == grammar[CurrentAction.target]
    IN  (Len(p.rhs) = 3 /\ p.lhs \in DOMAIN FieldOf /\ pc' = "parsing") =>
            LET n == valueStack'[Len(valueStack')][FieldOf[p.lhs]]
            IN  n # Null /\ n.left # Null /\ n.op = OperatorName[p.rhs[2]]

\* C17: every node of the six binary levels (LOr, LAnd, Eq, Rel, Add, Mul)
\* the parser builds, the wrapper nodes of exp -> lOrExp included, is a
\* pass-through (left null, right a node of the next lower level) or an
\* extension (left of the same level, right of the next lower level, op the
\* operator that was matched), recursively down to UnaryExp.
C17_BinaryLevelsShaped ==
    /\ [](WellShaped(astRoot) /\ \A k \in DOMAIN valueStack : ValueShaped(valueStack[k]))
    /\ [][ReduceStep => ExtensionRecordsOperator]_vars

\* an accepted program whose tree holds an extension node inside the wrapper
\* of exp -> lOrExp
C17_Witness ==
    /\ pc = "returned"
    /\ parseResult = "true"
    /\ astRoot # Null
    /\ \E k \in DOMAIN astRoot.funcDefs :
          \E j \in DOMAIN astRoot.funcDefs[k].block.items :
            LET s == astRoot.funcDefs[k].block.items[j].stmt
            IN  /\ s # Null
                /\ s.exp # Null
                /\ s.exp.type = "AddExp"
                /\ s.exp.left = Null
                /\ s.exp.right.right.primaryExp.exp.type = "LOrExp"
                /\ s.exp.right.right.primaryExp.exp.right.right.right.right.left # Null

(***************************************************************************)
(* C18 - C20: conflicts in the ACTION table, FOLLOW                        *)
(***************************************************************************)
\* the constructor has returned
TablesBuilt == builder # Null /\ pc = "ready"

\* the item has its dot before terminal a
ShiftItem(G, it, a) ==
    /\ it[2] < Len(G[it[1]].rhs)
    /\ G[it[1]].rhs[it[2] + 1] = a
    /\ a \in terminalsOf(G)

\* the item is completed and is not the one of  S' -> Program
ReduceItem(G, it) == it[2] >= Len(G[it[1]].rhs) /\ G[it[1]].lhs # "S'"

\* the completed item calls for Reduce on a
ReduceItemOn(G, fo, it, a) == ReduceItem(G, it) /\ a \in fo[G[it[1]].lhs]

\* the order in which buildTable walks the items of a state
ItemBefore(x, y) == x[1] < y[1] \/ (x[1] = y[1] /\ x[2] < y[2])

\* state i has a shift-reduce conflict on a between the items sh and rd
ShiftReduceConflict(i, a, sh, rd) ==
    /\ sh \in builder.C[i + 1]
    /\ rd \in builder.C[i + 1]
    /\ ShiftItem(builder.G, sh, a)
    /\ ReduceItemOn(builder.G, builder.follow, rd, a)

\* C18: a state that holds an item with the dot before terminal a and a
\* completed item whose left-hand side has a in its FOLLOW set has
\* ACTION[state, a] = Shift after buildTable, whichever of the two items
\* buildTable meets first.
C18_ShiftOverReduce ==
    TablesBuilt =>
        \A i \in 0..(Len(builder.C) - 1) : \A a \in terminalsOf(builder.G) :
            (\E sh, rd \in builder.C[i + 1] : ShiftReduceConflict(i, a, sh, rd)) =>
                /\ a \in DOMAIN actionTable[i]
                /\ actionTable[i][a] =
                      [type |-> "SHIFT",
                       target |-> FindState(builder.C, gotoState(builder.G, builder.C[i + 1], a))]

\* tables with a conflict whose completed item comes first and a conflict
\* whose shift item comes first
C18_Witness ==
    /\ TablesBuilt
    /\ \E i \in 0..(Len(builder.C) - 1) : \E a \in terminalsOf(builder.G) :
          \E sh, rd \in builder.C[i + 1] :
            ShiftReduceConflict(i, a, sh, rd) /\ ItemBefore(rd, sh)
    /\ \E i \in 0..(Len(builder.C) - 1) : \E a \in terminalsOf(builder.G) :
          \E sh, rd \in builder.C[i + 1] :
            ShiftReduceConflict(i, a, sh, rd) /\ ItemBefore(sh, rd)

\* the completed items of state i that call for Reduce on a
Reducers(i, a) ==
    {it \in builder.C[i + 1] : ReduceItemOn(builder.G, builder.follow, it, a)}

\* state i holds the completed item of  S' -> Program
AcceptState(i) == <<1, 1>> \in builder.C[i + 1]

\* the cells no shift item writes hold their first registration
FirstRegistrationKept(G) ==
    \A i \in 0..(Len(builder.C) - 1) : \A a \in terminalsOf(G) :
        (Reducers(i, a) # {} /\ ~\E sh \in builder.C[i + 1] : ShiftItem(G, sh, a)) =>
            /\ a \in DOMAIN actionTable[i]
            /\ actionTable[i][a] =
                  IF AcceptState(i) /\ a = "$" THEN [type |-> "ACC", target |-> 0]
                  ELSE LET firstItem == CHOOSE it \in Reducers(i, a) :
                                            \A o \in Reducers(i, a) : o = it \/ ItemBefore(it, o)
                       IN  [type |-> "REDUCE", target |-> firstItem[1]]

FixedGrammarFirstReduceWins ==
    (TablesBuilt /\ builder.G = grammar) => FirstRegistrationKept(grammar)

\* FIRST of the symbols rhs[i..] without epsilon
RECURSIVE FirstOfRest(_, _, _)
FirstOfRest(fst, rhs, i) ==
    IF i > Len(rhs) THEN {}
    ELSE (fst[rhs[i]] \ {"epsilon"}) \cup
         (IF "epsilon" \in fst[rhs[i]] THEN FirstOfRest(fst, rhs, i + 1) ELSE {})

\* rhs[i..] is empty or each of its symbols derives epsilon
RestNullable(fst, rhs, i) == \A k \in i..Len(rhs) : "epsilon" \in fst[rhs[k]]

\* one application of the rules to every nonterminal: for A -> alpha B beta,
\* FOLLOW(B) gains FIRST(beta) without epsilon, and FOLLOW(A) when beta is
\* empty or derives epsilon
FollowRules(G, fst, fo) ==
    [B \in DOMAIN fo |->
        fo[B] \cup
        UNION { UNION { FirstOfRest(fst, G[k].rhs, i + 1) \cup
                        (IF RestNullable(fst, G[k].rhs, i + 1) THEN fo[G[k].lhs] ELSE {}) :
                          i \in {j \in DOMAIN G[k].rhs : G[k].rhs[j] = B} } :
                  k \in DOMAIN G }]

RECURSIVE LeastFollow(_, _, _)
LeastFollow(G, fst, fo) ==
    LET fo1 == FollowRules(G, fst, fo)
    IN  IF fo1 = fo THEN fo ELSE LeastFollow(G, fst, fo1)

\* the least fixed point of the rules, seeded with the end marker in the
\* FOLLOW set of the start symbol
RuleFollow(G, fst) ==
    LeastFollow(G, fst, [B \in nonTerminalsOf(G) |-> IF B = "Program" THEN {"$"} ELSE {}])

\* computeFollow has just returned
FollowComputed == builder # Null /\ builder.phase = "computeFollow"

FollowIsLeastFixedPoint(G) ==
    \A B \in nonTerminalsOf(G) : builder.follow[B] = RuleFollow(G, builder.first)[B]

FixedGrammarFollow ==
    (FollowComputed /\ builder.G = grammar) => FollowIsLeastFixedPoint(grammar)

(***************************************************************************)
(* C21: the arms of an if statement                                        *)
(***************************************************************************)
\* what the generated blocks hold for an arm recorded when it had been
\* visited: one more instruction, the branch to the merge block, when the
\* arm's block had no terminator, and nothing more when it had one
ArmClosed(g, e) ==
    LET insts == g.blocks[e.endBB].insts
    IN  IF e.terminated
        THEN /\ Len(insts) = e.count
             /\ ~\E x \in Edges(g) : x.from = e.endBB /\ x.to = e.mergeBB
        ELSE /\ Len(insts) = e.count + 1
             /\ insts[e.count + 1].op = "br"
             /\ insts[e.count + 1].operands = <<>>
             /\ insts[e.count + 1].targets = <<e.mergeBB>>

\* the merge block exists and is the insertion point after the statement
EndsAtMerge(e) == e.mergeBB \in 1..e.count /\ e.endBB = e.mergeBB

\* C21: for every if statement, an arm whose final block has no terminator
\* receives exactly one unconditional branch to the merge block, an arm
\* whose final block ends in a terminator receives none (the merge block
\* then has no predecessor from that arm, and is created all the same), and
\* after the statement the insertion point is the merge block.
C21_IfArmsReachMerge ==
    gen # Null =>
        \A i \in DOMAIN gen.ifLog :
            IF gen.ifLog[i].ev = "end" THEN EndsAtMerge(gen.ifLog[i])
            ELSE ArmClosed(gen, gen.ifLog[i])

\* a function with an if whose then-arm falls through and whose else-arm
\* returns, and an if whose arms both return
C21_Witness ==
    /\ Generated
    /\ \E i, j, k \in DOMAIN gen.ifLog :
         /\ gen.ifLog[i].ev = "then" /\ ~gen.ifLog[i].terminated
         /\ gen.ifLog[j].ev = "then" /\ gen.ifLog[j].terminated
         /\ gen.ifLog[k].ev = "else" /\ gen.ifLog[k].terminated
         /\ gen.ifLog[j].mergeBB = gen.ifLog[k].mergeBB
         /\ ~\E x \in Edges(gen) : x.to = gen.ifLog[j].mergeBB

(***************************************************************************)
(* C22: the condition of a conditional branch                              *)
(***************************************************************************)
\* the conditional branches of the generated blocks
CondBranches(g) ==
    UNION { { g.blocks[b].insts[k] :
                k \in {n \in DOMAIN g.blocks[b].insts :
                          /\ g.blocks[b].insts[n].op = "br"
                          /\ Len(g.blocks[b].insts[n].targets) = 2} } :
            b \in DOMAIN g.blocks }

\* C22: the condition operand of every conditional branch emitted for an if
\* statement or a short-circuit operator has 1-bit type; a 32-bit int or a
\* float condition is first compared not-equal-to-zero.
C22_BranchConditionIsInt1 ==
    gen # Null => \A br \in CondBranches(gen) : TypeOf(br.operands[1]) = "i1"

(***************************************************************************)
(* C23: the phi node of a short-circuit operator                           *)
(***************************************************************************)
\* the phi instructions of block b
PhisOf(g, b) ==
    {g.blocks[b].insts[k] : k \in {n \in DOMAIN g.blocks[b].insts :
                                       g.blocks[b].insts[n].op = "phi"}}

\* the blocks with a branch to block b
Predecessors(g, b) == {x.from : x \in {y \in Edges(g) : y.to = b}}

\* the last instruction of block b
LastInst(g, b) == g.blocks[b].insts[Len(g.blocks[b].insts)]

\* the merge block of the lowering e holds one phi; its pairs are the
\* constant with the block of the conditional branch on L, and a value
\* with the block in which the evaluation of R ended; these two blocks are
\* the predecessors of the merge block
PhiPairs(g, e) ==
    \E phi \in PhisOf(g, e.mergeBB) :
        /\ PhisOf(g, e.mergeBB) = {phi}
        /\ Len(phi.operands) = 2
        /\ Len(phi.targets) = 2
        /\ phi.operands[1] = ConstantBool(e.op = "or")
        /\ phi.targets[1] = e.leftBB
        /\ LastInst(g, e.leftBB).op = "br"
        /\ LastInst(g, e.leftBB).targets =
              IF e.op = "and" THEN <<e.rhsBB, e.mergeBB>> ELSE <<e.mergeBB, e.rhsBB>>
        /\ phi.targets[2] \in RhsRegion(e)
        /\ LastInst(g, phi.targets[2]).op = "br"
        /\ LastInst(g, phi.targets[2]).targets = <<e.mergeBB>>
        /\ Predecessors(g, e.mergeBB) = {phi.targets[1], phi.targets[2]}
        /\ phi.targets[1] # phi.targets[2]

\* the value paired with the block of R is a 1-bit value
PhiValueIsInt1(g, e) ==
    \A phi \in PhisOf(g, e.mergeBB) : TypeOf(phi.operands[2]) = "i1"

\* C23: the phi node created at the merge block of L && R (L || R) has
\* exactly two incoming pairs, whose blocks are exactly the two predecessors
\* of the merge block: the block of the conditional branch on L, paired
\* with constant false (true), and the block in which the evaluation of R
\* ended, paired with R's 1-bit value; also when L or R hold nested
\* short-circuit operators.
C23_PhiPairs ==
    gen # Null =>
        \A i \in DOMAIN gen.rhsLog :
            PhiPairs(gen, gen.rhsLog[i]) /\ PhiValueIsInt1(gen, gen.rhsLog[i])

\* the blocks of the pairs are the predecessors, whatever the type of R
PhiBlocksArePredecessors ==
    gen # Null => \A i \in DOMAIN gen.rhsLog : PhiPairs(gen, gen.rhsLog[i])

(***************************************************************************)
(* C24: operand types of the binary instructions                           *)
(***************************************************************************)
IntVariants ==
    {"iadd", "isub", "imul", "isdiv", "irem", "icmp_eq", "icmp_ne", "icmp_lt", "icmp_gt",
     "icmp_le", "icmp_ge"}

FloatVariants ==
    {"fadd", "fsub", "fmul", "fdiv", "fcmp_eq", "fcmp_ne", "fcmp_lt", "fcmp_gt", "fcmp_le",
     "fcmp_ge"}

\* the arithmetic, relational and equality instructions of the generated
\* blocks
BinaryInsts(g) ==
    UNION { { g.blocks[b].insts[k] :
                k \in {n \in DOMAIN g.blocks[b].insts :
                          g.blocks[b].insts[n].op \in IntVariants \cup FloatVariants} } :
            b \in DOMAIN g.blocks }

OperandsMatch(inst) ==
    /\ Len(inst.operands) = 2
    /\ \/ /\ inst.op \in IntVariants
          /\ TypeOf(inst.operands[1]) = "i32"
          /\ TypeOf(inst.operands[2]) = "i32"
       \/ /\ inst.op \in FloatVariants
          /\ TypeOf(inst.operands[1]) = "float"
          /\ TypeOf(inst.operands[2]) = "float"

\* C24: in every binary arithmetic, relational or equality instruction the
\* generator emits (% and the comparison emitted for ! included) both
\* operands have the same type and the instruction variant matches it: both
\* 32-bit int with the integer variant, or both float with the float
\* variant; an int operand is converted when the other is float, and a
\* 1-bit comparison result is widened before it is used as an operand.
C24_OperandTypesMatch ==
    gen # Null => \A inst \in BinaryInsts(gen) : OperandsMatch(inst)

(***************************************************************************)
(* C25: depth of the scope stack                                           *)
(***************************************************************************)
\* the depth the source text gives each occurrence of a variable name, in
\* source order: 1 outside every function, 2 between the parentheses of a
\* function header and in the function's own block, one more for each
\* enclosing nested block; a name followed by "(" is a function name
RECURSIVE SourceDepths(_, _, _, _)
SourceDepths(ts, i, braces, parens) ==
    IF i > Len(ts) THEN <<>>
    ELSE CASE ts[i].type = "SE_LBRACE" -> SourceDepths(ts, i + 1, braces + 1, parens)
           [] ts[i].type = "SE_RBRACE" -> SourceDepths(ts, i + 1, braces - 1, parens)
           [] ts[i].type = "SE_LPAREN" -> SourceDepths(ts, i + 1, braces, parens + 1)
           [] ts[i].type = "SE_RPAREN" -> SourceDepths(ts, i + 1, braces, parens - 1)
           [] ts[i].type = "IDN" /\ ~(i < Len(ts) /\ ts[i + 1].type = "SE_LPAREN") ->
                << IF braces > 0 THEN braces + 1 ELSE IF parens > 0 THEN 2 ELSE 1 >>
                \o SourceDepths(ts, i + 1, braces, parens)
           [] OTHER -> SourceDepths(ts, i + 1, braces, parens)

\* the depths recorded when a variable name was bound, refused or looked up
VisitDepths(log) ==
    LET names == SelectSeq(log, LAMBDA e : e.ev \in {"decl", "rejected", "use"})
    IN  [k \in DOMAIN names |-> names[k].depth]

\* the depths in the order of the visit: the global declarations of the
\* unit come before its functions
ExpectedDepths(ts) ==
    LET all == SourceDepths(ts, 1, 0, 0)
    IN  SelectSeq(all, LAMBDA d : d = 1) \o SelectSeq(all, LAMBDA d : d > 1)

IsPrefix(s, t) == Len(s) <= Len(t) /\ s = SubSeq(t, 1, Len(s))

\* C25: throughout IR generation the scope stack has depth at least 1; the
\* depth is 1 while global declarations are visited, 2 while a function's
\* parameters and the items of its own block are visited, one more for each
\* enclosing nested block, and 1 again after every function definition and
\* after generate returns.
C25_ScopeDepth ==
    (gen # Null /\ gen.phase # "crashed") =>
        /\ \A k \in DOMAIN gen.scopeLog : gen.scopeLog[k].depth >= 1
        /\ Len(gen.scopes) = 1
        /\ IsPrefix(VisitDepths(gen.scopeLog), ExpectedDepths(tokens))
        /\ gen.phase = "done" => VisitDepths(gen.scopeLog) = ExpectedDepths(tokens)

\* a generated unit with a name visited at each of the depths 1, 2 and 3
C25_Witness ==
    /\ Generated
    /\ ~gen.ub
    /\ {1, 2, 3} \subseteq {gen.scopeLog[k].depth : k \in DOMAIN gen.scopeLog}
    /\ \E k \in DOMAIN gen.scopeLog :
          gen.scopeLog[k].ev = "decl" /\ gen.scopeLog[k].depth = 3

(***************************************************************************)
(* C26: a function is bound before its body is visited                     *)
(***************************************************************************)
\* the number of calls the source text of a unit makes to a function from
\* inside that function's own body; current is the name of the function
\* whose header was read last
RECURSIVE SelfCalls(_, _, _, _)
SelfCalls(ts, i, braces, current) ==
    IF i >= Len(ts) THEN 0
    ELSE CASE ts[i].type = "SE_LBRACE" -> SelfCalls(ts, i + 1, braces + 1, current)
           [] ts[i].type = "SE_RBRACE" -> SelfCalls(ts, i + 1, braces - 1, current)
           [] ts[i].type = "IDN" /\ ts[i + 1].type = "SE_LPAREN" ->
                IF braces = 0 THEN SelfCalls(ts, i + 1, braces, ts[i].value)
                ELSE (IF ts[i].value = current THEN 1 ELSE 0)
                     + SelfCalls(ts, i + 1, braces, current)
           [] OTHER -> SelfCalls(ts, i + 1, braces, current)

\* the call instructions in the blocks of a function whose callee is that
\* function
SelfCallInsts(g) ==
    UNION { { g.blocks[b].insts[k] :
                k \in {n \in DOMAIN g.blocks[b].insts :
                          /\ g.blocks[b].insts[n].op = "call"
                          /\ g.blocks[b].insts[n].operands[1] =
                                g.functions[g.blocks[b].func]} } :
            b \in DOMAIN g.blocks }

\* every binding of a function name is made in the global scope and is
\* followed at once by the entry into the function's scope
BoundBeforeBody(log) ==
    \A k \in DOMAIN log :
        log[k].ev = "put" =>
            /\ log[k].depth = 1
            /\ k < Len(log)
            /\ log[k + 1].ev = "enter"
            /\ log[k + 1].depth = 2

\* C26: visitFuncDef binds the function's name in the global scope before
\* any parameter or statement of the body is visited, so a call to the
\* function from inside its own body resolves to that function and emits a
\* call instruction.
C26_FunctionBoundBeforeBody ==
    (gen # Null /\ gen.phase # "crashed") =>
        /\ BoundBeforeBody(gen.scopeLog)
        /\ gen.phase = "done" =>
              Cardinality(SelfCallInsts(gen)) = SelfCalls(tokens, 1, 0, "")

\* a generated unit with a call of a function from its own body
C26_Witness ==
    /\ Generated
    /\ SelfCalls(tokens, 1, 0, "") > 0
    /\ SelfCallInsts(gen) # {}

(***************************************************************************)
(* C27: operators of one precedence level nest to the left                 *)
(***************************************************************************)
\* the operator symbols of each binary level of the grammar
LevelSymbols ==
    [LOrExp |-> {"||"}, LAndExp |-> {"&&"}, EqExp |-> {"==", "!="},
     RelExp |-> {"<", ">", "<=", ">="}, AddExp |-> {"+", "-"}, MulExp |-> {"*", "/", "%"}]

\* a unit that is one function with one parameter whose body is one return
\* statement
SingleReturn(ts) ==
    /\ Len(ts) >= 12
    /\ ts[3].type = "SE_LPAREN"
    /\ ts[6].type = "SE_RPAREN"
    /\ ts[7].type = "SE_LBRACE"
    /\ ts[8].type = "KW_RETURN"
    /\ ts[Len(ts) - 2].type = "SE_SEMI"
    /\ ts[Len(ts) - 1].type = "SE_RBRACE"

\* the tokens of the returned expression
ReturnedTokens(ts) == SubSeq(ts, 9, Len(ts) - 3)

\* x1 op1 x2 ... op(n-1) xn with n >= 2, every xi a name or an integer
\* literal and every operator of level L
IsChain(e, L) ==
    /\ Len(e) >= 3
    /\ Len(e) % 2 = 1
    /\ \A i \in DOMAIN e :
          IF i % 2 = 1 THEN e[i].type \in {"IDN", "INT"}
          ELSE e[i].value \in LevelSymbols[L]

\* what an operand or an operator of the source text stands for
ItemOfToken(t) ==
    CASE t.type = "IDN" -> [kind |-> "id", name |-> t.value, val |-> 0]
      [] t.type = "INT" -> [kind |-> "int", name |-> "", val |-> stoi(t.value).val]
      [] t.value \in DOMAIN OperatorName ->
            [kind |-> "op", name |-> OperatorName[t.value], val |-> 0]
      [] t.value = "||" -> [kind |-> "op", name |-> "LOrExp", val |-> 0]
      [] t.value = "&&" -> [kind |-> "op", name |-> "LAndExp", val |-> 0]
      [] OTHER -> [kind |-> "other", name |-> t.value, val |-> 0]

\* the name or literal a subtree stands for when every node on the way down
\* is a pass-through
RECURSIVE Leaf(_)
Leaf(n) ==
    IF n = Null THEN [kind |-> "none", name |-> "", val |-> 0]
    ELSE CASE n.type \in DOMAIN LowerLevel ->
                IF n.left = Null THEN Leaf(n.right)
                ELSE [kind |-> "compound", name |-> n.type, val |-> 0]
           [] n.type = "UnaryExp" /\ n.unaryType = "PRIMARY" -> Leaf(n.primaryExp)
           [] n.type = "PrimaryExp" /\ n.primaryType = "LVAL" ->
                [kind |-> "id", name |-> n.lVal.ident, val |-> 0]
           [] n.type = "PrimaryExp" /\ n.primaryType = "NUMBER" /\ ~n.number.isFloat ->
                [kind |-> "int", name |-> "", val |-> n.number.intVal]
           [] OTHER -> [kind |-> "compound", name |-> n.type, val |-> 0]

\* the operator a node of a binary level records; the logical levels have
\* one operator each and record none
OpOf(n) ==
    [kind |-> "op", name |-> IF n.type \in DOMAIN LevelOps THEN n.op ELSE n.type, val |-> 0]

\* the first node below n, through pass-through nodes, that has a left child
RECURSIVE FirstExtension(_)
FirstExtension(n) ==
    IF n.left # Null THEN n
    ELSE IF n.right.type \in DOMAIN LowerLevel THEN FirstExtension(n.right)
    ELSE n

\* the operands and operators met from the end of the left spine of n back
\* to n
RECURSIVE ChainText(_)
ChainText(n) ==
    IF n.left = Null THEN <<Leaf(n.right)>>
    ELSE ChainText(n.left) \o <<OpOf(n), Leaf(n.right)>>

\* the length of the left spine of n
RECURSIVE SpineLength(_)
SpineLength(n) == IF n.left = Null THEN 1 ELSE 1 + SpineLength(n.left)

\* the lOrExp of the returned expression of the first function
ReturnedLOrExp == astRoot.funcDefs[1].block.items[1].stmt.exp.right.right.primaryExp.exp

\* the root of a chain of level L has xn as its right child and op(n-1) as
\* its operator, and its left spine reads x(n-1), ..., x1 and ends in a
\* pass-through node whose right child is x1
LeftNested(root, e) ==
    /\ root.left # Null
    /\ Leaf(root.right) = ItemOfToken(e[Len(e)])
    /\ OpOf(root) = ItemOfToken(e[Len(e) - 1])
    /\ SpineLength(root) = (Len(e) + 1) \div 2
    /\ ChainText(root) = [i \in DOMAIN e |-> ItemOfToken(e[i])]

\* C27: for an expression x1 op1 x2 ... op(n-1) xn whose operators all
\* belong to one precedence level, the tree the parser builds is the
\* left-nested chain: the root has xn as right child and op(n-1) as operator,
\* and following left pointers visits x(n-1), ..., x1, ending at a
\* pass-through node whose right child is x1.
C27_LeftNestedChain ==
    (Accepted /\ SingleReturn(tokens)) =>
        \A L \in DOMAIN LowerLevel :
            IsChain(ReturnedTokens(tokens), L) =>
                LET root == FirstExtension(ReturnedLOrExp)
                IN  /\ root.type = L
                    /\ LeftNested(root, ReturnedTokens(tokens))

\* an accepted return of a chain of four operands of the additive level
C27_Witness ==
    /\ Accepted
    /\ SingleReturn(tokens)
    /\ IsChain(ReturnedTokens(tokens), "AddExp")
    /\ Len(ReturnedTokens(tokens)) = 7
    /\ SpineLength(FirstExtension(ReturnedLOrExp)) = 4

(***************************************************************************)
(* C28: the dangling else                                                  *)
(***************************************************************************)
\* the production with the given left-hand side and first symbol
ProductionOf(lhs, sym) ==
    CHOOSE k \in DOMAIN grammar : grammar[k].lhs = lhs /\ grammar[k].rhs[1] = sym

\* the item  stmt -> if ( cond ) stmt . ElsePart
AfterThenItem == <<ProductionOf("stmt", "if"), 5>>

\* the item  ElsePart -> else . stmt
AfterElseItem == <<ProductionOf("ElsePart", "else"), 1>>

\* the states reached after  if ( cond ) stmt
AfterThenStates ==
    {i \in 0..(Len(canonicalCollection) - 1) : AfterThenItem \in canonicalCollection[i + 1]}

\* in every state after  if ( cond ) stmt  the entry on else is the shift
ElseIsShifted ==
    \A i \in AfterThenStates :
        /\ "else" \in DOMAIN actionTable[i]
        /\ actionTable[i]["else"].type = "SHIFT"
        /\ AfterElseItem \in canonicalCollection[actionTable[i]["else"].target + 1]

\* the body of the one function of the unit starts with
\* if ( c1 ) if ( c2 ) s1 else s2, where s1 and s2 are assignments
NestedIfSource(ts) ==
    /\ Len(ts) >= 24
    /\ ts[7].type = "SE_LBRACE"
    /\ [k \in 1..13 |-> ts[7 + k].type] =
          <<"KW_IF", "SE_LPAREN", "IDN", "SE_RPAREN", "KW_IF", "SE_LPAREN", "IDN",
            "SE_RPAREN", "IDN", "OP_ASSIGN", "INT", "SE_SEMI", "KW_ELSE">>
    /\ [k \in 1..4 |-> ts[20 + k].type] = <<"IDN", "OP_ASSIGN", "INT", "SE_SEMI">>

\* the statement is the assignment  name = literal  of the tokens at i
IsAssignment(st, ts, i) ==
    /\ st # Null
    /\ st.stmtType = "ASSIGN"
    /\ st.lVal.ident = ts[i].value
    /\ Leaf(st.exp.right.right.primaryExp.exp) = ItemOfToken(ts[i + 2])

\* the condition is the name at token i
IsNameCond(c, ts, i) == c # Null /\ Leaf(c.lOrExp) = ItemOfToken(ts[i])

\* the else belongs to the inner if
ElseOnInnerIf(outer, ts) ==
    /\ outer # Null
    /\ outer.stmtType = "IF"
    /\ IsNameCond(outer.cond, ts, 10)
    /\ outer.elseStmt = Null
    /\ outer.thenStmt # Null
    /\ outer.thenStmt.stmtType = "IF"
    /\ IsNameCond(outer.thenStmt.cond, ts, 14)
    /\ IsAssignment(outer.thenStmt.thenStmt, ts, 16)
    /\ IsAssignment(outer.thenStmt.elseStmt, ts, 21)

\* the if statements at and below a statement
RECURSIVE IfsBelow(_)
IfsBelow(st) ==
    IF st = Null THEN {}
    ELSE CASE st.stmtType = "IF" -> {st} \cup IfsBelow(st.thenStmt) \cup IfsBelow(st.elseStmt)
           [] st.stmtType = "BLOCK" ->
                UNION {IfsBelow(st.block.items[k].stmt) : k \in DOMAIN st.block.items}
           [] OTHER -> {}

\* the if statements of the unit
IfsOfUnit ==
    UNION { UNION {IfsBelow(astRoot.funcDefs[k].block.items[j].stmt) :
                      j \in DOMAIN astRoot.funcDefs[k].block.items} :
            k \in DOMAIN astRoot.funcDefs }

\* no if with an else has an if without an else as its then-statement
NoElseOverOpenIf ==
    \A st \in IfsOfUnit :
        (st.thenStmt # Null /\ st.thenStmt.stmtType = "IF" /\ st.thenStmt.elseStmt = Null) =>
            st.elseStmt = Null

\* C28: the grammar is ambiguous on the dangling else and the ambiguity is
\* resolved so that an else attaches to the nearest unmatched if: in the
\* state after  if ( cond ) stmt  the ACTION entry on else is the shift, not
\* the reduce by ElsePart -> epsilon, and for  if (c1) if (c2) s1 else s2
\* the inner if has s2 as else-statement and the outer if has none.
C28_DanglingElse ==
    /\ ElseIsShifted
    /\ Accepted =>
          /\ NoElseOverOpenIf
          /\ NestedIfSource(tokens) =>
                ElseOnInnerIf(astRoot.funcDefs[1].block.items[1].stmt, tokens)

\* the nested conditional has been accepted, and the state after
\* if ( cond ) stmt  has else in the FOLLOW set of ElsePart
C28_Witness ==
    /\ Accepted
    /\ NestedIfSource(tokens)
    /\ astRoot.funcDefs[1].block.items[1].stmt.thenStmt.elseStmt # Null
    /\ AfterThenStates # {}
    /\ "else" \in follow["ElsePart"]

(***************************************************************************)
(* C29: one terminator per block, at its end                               *)
(***************************************************************************)
\* the positions of the terminators of block b
TerminatorsOf(g, b) ==
    {k \in DOMAIN g.blocks[b].insts : IsTerminator(g.blocks[b].insts[k])}

\* block b holds exactly one terminator and it is its last instruction
WellTerminated(g, b) == TerminatorsOf(g, b) = {Len(g.blocks[b].insts)}

\* C29: after generate, every basic block of every generated function
\* contains exactly one terminator instruction and it is the last
\* instruction of the block; no instruction is emitted into a block after
\* its terminator, including for statements that follow a return in the
\* same block or if-arm.
C29_OneTerminatorPerBlock ==
    Generated => \A b \in DOMAIN gen.blocks : WellTerminated(gen, b)

\* the blocks that hold their first terminator end in a terminator, so the
\* ill-terminated blocks are the ones with an instruction after a terminator
OnlyEmissionAfterTerminator ==
    Generated =>
        \A b \in DOMAIN gen.blocks :
            /\ gen.blocks[b].insts # <<>>
            /\ IsTerminator(gen.blocks[b].insts[Len(gen.blocks[b].insts)])

(***************************************************************************)
(* C30: parse terminates                                                   *)
(***************************************************************************)
\* parse has returned: by accept (true), or by a parse error or a goto
\* error (false)
ParseEnded == pc = "returned" /\ parseResult \in {"true", "false"}

\* a shift consumes one token and nothing else moves the input position,
\* which never passes the end of the token vector
OneShiftPerToken ==
    /\ [](pc = "parsing" => ip <= Len(tokens))
    /\ [][pc = "parsing" =>
            IF ActionDefined /\ CurrentAction.type = "SHIFT" THEN ip' = ip + 1
            ELSE ip' = ip]_vars

\* C30: for every finite token stream parse terminates: it performs at most
\* one shift per input token and only finitely many reduces between shifts,
\* and ends in accept, in a parse error or in a goto error.
C30_ParseTerminates ==
    /\ OneShiftPerToken
    /\ (pc = "parsing") ~> ParseEnded

\* every call of parse ends: it returns or is left by the exception of a
\* semantic action
ParseReturnsOrThrows == (pc = "parsing") ~> (ParseEnded \/ pc = "threw")

====
